---------------------------- MODULE Spec2Model ----------------------------
(***************************************************************************)
(* A model of OH6BG/VOACAP_MAPS.                                            *)
(*                                                                          *)
(* Spec: collect_data_to_database.py, the line parser collect_data, the     *)
(* module-level context it keeps (txlat, txlon, utc, month, freq), the      *)
(* rows it collects, and the per-file thread pool that calls it once per    *)
(* line, and the insertion of the rows into the database.                   *)
(* FairSpec: Spec with the scheduling of the pool: a thread that can take   *)
(* a step takes one.                                                        *)
(* VgSpec: voaAreaPlot.py, the decoding of .vg files into the matrix of a   *)
(* plot.                                                                    *)
(* LocSpec: the locator codec, maiden2latlon and latlon2loc.                *)
(* MapsSpec: plot_maps.py, the loop over the .vg files and the selected     *)
(* maps that calls the renderer.                                            *)
(* MatrixSpec: run_p2p_matrix.py, the loop over years and months and the    *)
(* pool of calls that write an input deck and run voacapl.                  *)
(* MainSpec: voaAreaPlot.py, main, from the parsed command line to the      *)
(* VOAAreaPlot it makes.                                                    *)
(* PoolSpec: plot_maps.py, the calls of plot_maps that run side by side     *)
(* over the .voa files and the output files they write.                     *)
(*                                                                          *)
(* Text (Python bytes and str alike) is a sequence of one-character         *)
(* strings.  A Python float is the integer number of 1/6000 it holds:       *)
(* 6000 is the least unit in which the 1/48 and 1/24 of maiden2latlon and   *)
(* the decimals of the input lines (at most three fraction digits) are all  *)
(* whole.  A Python value whose type the code depends on is a record        *)
(* [t, n, s]: t its type, n its number, s its text.                         *)
(***************************************************************************)
EXTENDS Integers, Sequences, FiniteSets, Bags, TLC

(***************************************************************************)
(* Bounds of the model.                                                     *)
(***************************************************************************)
\* the number of *.vg* files of a run
MaxFiles == 2
\* the number of lines of a file, in a run of one file; each further file
\* of the run takes one line off every file
MaxLines == 3
\* the threads of the pool that run at the same time
NumWorkers == 2

(***************************************************************************)
(* Python text operations.                                                  *)
(***************************************************************************)
FloatUnit == 48 * 125

Digits == <<"0", "1", "2", "3", "4", "5", "6", "7", "8", "9">>

Upper ==
    <<"A", "B", "C", "D", "E", "F", "G", "H", "I", "J", "K", "L", "M",
      "N", "O", "P", "Q", "R", "S", "T", "U", "V", "W", "X", "Y", "Z">>

Lower ==
    <<"a", "b", "c", "d", "e", "f", "g", "h", "i", "j", "k", "l", "m",
      "n", "o", "p", "q", "r", "s", "t", "u", "v", "w", "x", "y", "z">>

Punct == <<" ", "*", "+", "-", ".", "/", "[", "]">>

PunctOrd == <<32, 42, 43, 45, 46, 47, 91, 93>>

IndexOf(seq, c) == CHOOSE i \in 1..Len(seq) : seq[i] = c

InSeq(seq, c) == \E i \in 1..Len(seq) : seq[i] = c

\* ord(c) of a one-character text
Ord(c) ==
    IF InSeq(Digits, c) THEN 47 + IndexOf(Digits, c)
    ELSE IF InSeq(Upper, c) THEN 64 + IndexOf(Upper, c)
    ELSE IF InSeq(Lower, c) THEN 96 + IndexOf(Lower, c)
    ELSE PunctOrd[IndexOf(Punct, c)]

IsSpace(c) == c \in {" ", "\t", "\n"}

SetMin(S) == CHOOSE x \in S : \A y \in S : x <= y

SetMax(S) == CHOOSE x \in S : \A y \in S : x >= y

\* s[a:b] with 0 <= a, b (Python slice, zero-based, b exclusive)
Slice(s, a, b) ==
    LET hi == IF b > Len(s) THEN Len(s) ELSE b
    IN  IF a >= hi THEN <<>> ELSE SubSeq(s, a + 1, hi)

\* s[:-n]
DropLast(s, n) == Slice(s, 0, Len(s) - n)

StartsWith(s, p) == Len(s) >= Len(p) /\ Slice(s, 0, Len(p)) = p

EndsWith(s, p) == Len(s) >= Len(p) /\ Slice(s, Len(s) - Len(p), Len(s)) = p

\* s.strip()
Strip(s) ==
    LET keep == {i \in 1..Len(s) : ~IsSpace(s[i])}
    IN  IF keep = {} THEN <<>> ELSE SubSeq(s, SetMin(keep), SetMax(keep))

\* s.split(c)
RECURSIVE SplitOn(_, _)
SplitOn(s, c) ==
    LET hits == {i \in 1..Len(s) : s[i] = c}
    IN  IF hits = {} THEN <<s>>
        ELSE LET k == SetMin(hits)
             IN  <<SubSeq(s, 1, k - 1)>> \o SplitOn(SubSeq(s, k + 1, Len(s)), c)

\* s.split()
RECURSIVE SplitWS(_)
SplitWS(s) ==
    LET keep == {i \in 1..Len(s) : ~IsSpace(s[i])}
    IN  IF keep = {} THEN <<>>
        ELSE LET a == SetMin(keep)
                 gaps == {i \in a..Len(s) : IsSpace(s[i])}
                 b == IF gaps = {} THEN Len(s) + 1 ELSE SetMin(gaps)
             IN  <<SubSeq(s, a, b - 1)>> \o SplitWS(SubSeq(s, b, Len(s)))

(***************************************************************************)
(* Python values.                                                           *)
(***************************************************************************)
PyInt(n) == [t |-> "int", n |-> n, s |-> <<>>]

PyFloat(n) == [t |-> "float", n |-> n, s |-> <<>>]

PyStr(s) == [t |-> "str", n |-> 0, s |-> s]

\* the digits of a text as a number, most significant first
RECURSIVE DigitsValue(_)
DigitsValue(s) ==
    IF s = <<>> THEN 0
    ELSE 10 * DigitsValue(SubSeq(s, 1, Len(s) - 1)) + (Ord(s[Len(s)]) - 48)

Pow10(k) == IF k = 0 THEN 1 ELSE IF k = 1 THEN 10 ELSE IF k = 2 THEN 100 ELSE 1000

\* the number of two digit runs, ip before the point and fp after it
ReadDigits(ip, fp) ==
    IF /\ Len(ip) + Len(fp) >= 1
       /\ Len(fp) <= 3
       /\ \A i \in 1..Len(ip) : InSeq(Digits, ip[i])
       /\ \A i \in 1..Len(fp) : InSeq(Digits, fp[i])
    THEN [ok |-> TRUE,
          n |-> DigitsValue(ip) * FloatUnit
                  + (DigitsValue(fp) * FloatUnit) \div Pow10(Len(fp))]
    ELSE [ok |-> FALSE, n |-> 0]

\* an unsigned decimal u whose points are at the places dots
ReadParts(u, dots) ==
    IF Cardinality(dots) > 1 THEN [ok |-> FALSE, n |-> 0]
    ELSE IF dots = {} THEN ReadDigits(u, <<>>)
    ELSE ReadDigits(SubSeq(u, 1, SetMin(dots) - 1), SubSeq(u, SetMin(dots) + 1, Len(u)))

WithSign(neg, r) == IF neg /\ r.ok THEN [ok |-> TRUE, n |-> 0 - r.n] ELSE r

ReadSigned(b, u) ==
    WithSign(b # <<>> /\ b[1] = "-", ReadParts(u, {i \in 1..Len(u) : u[i] = "."}))

Unsigned(b) == IF b # <<>> /\ b[1] \in {"+", "-"} THEN Tail(b) ELSE b

\* float(s) of a text: [ok, n]; ok is FALSE where float raises ValueError.
\* Decimal notation with at most three fraction digits is read, which is
\* what the lines of this model hold.
ParseFloat(s) == ReadSigned(Strip(s), Unsigned(Strip(s)))

\* convert(s): a float where float(s) succeeds, else the stripped text
convert(v) ==
    IF v.t \in {"int", "float"} THEN PyFloat(v.n)
    ELSE LET f == ParseFloat(v.s)
         IN  IF f.ok THEN PyFloat(f.n) ELSE PyStr(Strip(v.s))

\* maiden2latlon(loc): [ok, lat, lon]; ok is FALSE where ord() of an empty
\* slice raises TypeError, that is for a locator of fewer than 6 characters
maiden2latlon(loc) ==
    LET o(k) == Ord(Slice(loc, k, k + 1)[1])
    IN  IF Len(loc) < 6 THEN [ok |-> FALSE, lat |-> 0, lon |-> 0]
        ELSE [ok |-> TRUE,
              lat |-> ((o(1) - 65) * 10 - 90 + (o(3) - 48)) * FloatUnit
                        + ((o(5) - 65) * FloatUnit) \div 24 + FloatUnit \div 48,
              lon |-> ((o(0) - 65) * 20 - 180 + (o(2) - 48) * 2) * FloatUnit
                        + ((o(4) - 65) * FloatUnit) \div 12 + FloatUnit \div 24]

\* calculate_km_deg(lat1, lon1, lat2, lon2): km and deg are functions of the
\* four arguments alone; the model keeps the arguments
calculate_km_deg(lat1, lon1, lat2, lon2) == <<lat1, lon1, lat2, lon2>>

(***************************************************************************)
(* The lines a file may hold.                                               *)
(***************************************************************************)
\* a banner line: starts with VOACAPL
BannerText ==
    <<"V", "O", "A", "C", "A", "P", "L", " ", "0", ".", "7", ".", "6">>

\* a column-title line: ends with PWRCTANGLER
FooterText ==
    <<"S", "I", "G", "L", "W", " ", "S", "I", "G", "U", "P", " ", "P", "W", "R", "C", "T", "A",
      "N", "G", "L", "E", "R">>

\* the header of the comment at line 101
Header1Text ==
    <<"K", "P", "0", "3", "Q", "A", " ", "[", "1", "/", "4", " ", "w", "l", " ", "G", "u", "d",
      "]", " ", "1", ".", "5", "k", "W", " ", "-", "1", "d", "e", "g", " ", "2", "4", "u", "t",
      " ", "3", ".", "5", "0", "0", "M", "H", "z", " ", "O", "c", "t", " ", "2", "5", "s", "s",
      "n">>

\* a second well-formed header
Header2Text ==
    <<"J", "O", "6", "5", "M", "N", " ", "[", "1", "/", "4", " ", "w", "l", " ", "G", "u", "d",
      "]", " ", "1", ".", "5", "k", "W", " ", "-", "1", "d", "e", "g", " ", "0", "1", "u", "t",
      " ", "7", ".", "1", "0", "0", "M", "H", "z", " ", "N", "o", "v", " ", "2", "5", "s", "s",
      "n">>

\* a header whose segment after ']' has five tokens
HeaderTokText ==
    <<"K", "P", "0", "3", "Q", "A", " ", "[", "1", "/", "4", " ", "w", "l", " ", "G", "u", "d",
      "]", " ", "1", ".", "5", "k", "W", " ", "0", "6", "u", "t", " ", "1", "4", ".", "1", "0",
      "0", "M", "H", "z", " ", "D", "e", "c", " ", "2", "5", "s", "s", "n">>

\* a header without ']'
HeaderNoBrText ==
    <<"K", "P", "0", "3", "Q", "A", " ", "1", ".", "5", "k", "W", " ", "-", "1", "d", "e", "g",
      " ", "0", "6", "u", "t", " ", "1", "4", ".", "1", "0", "0", "M", "H", "z", " ", "D", "e",
      "c", " ", "2", "5", "s", "s", "n">>

\* a header with a four-character locator
HeaderLocText ==
    <<"K", "P", "0", "3", " ", "[", "1", "/", "4", " ", "w", "l", " ", "G", "u", "d", "]", " ",
      "1", ".", "5", "k", "W", " ", "-", "1", "d", "e", "g", " ", "0", "6", "u", "t", " ", "1",
      "4", ".", "1", "0", "0", "M", "H", "z", " ", "D", "e", "c", " ", "2", "5", "s", "s", "n">>

\* a 170-byte data line, receiver at 10.00 N 20.00 E
Data1Text ==
    <<" ", " ", "1", " ", " ", "1", " ", " ", " ", " ", " ", "1", "0", ".", "0", "0", " ", " ",
      " ", " ", " ", "2", "0", ".", "0", "0", " ", "1", "0", ".", "5", "0", " ", " ", " ", "2",
      "F", "2", " ", " ", "1", ".", "0", "0", " ", " ", "1", ".", "0", "0", " ", " ", "1", ".",
      "0", "0", " ", " ", "1", ".", "0", "0", " ", " ", "1", ".", "0", "0", " ", " ", "1", ".",
      "0", "0", " ", " ", "1", ".", "0", "0", " ", " ", "1", ".", "0", "0", " ", " ", "1", ".",
      "0", "0", " ", " ", "1", ".", "0", "0", " ", " ", "1", ".", "0", "0", " ", " ", "1", ".",
      "0", "0", " ", " ", "1", ".", "0", "0", " ", " ", "1", ".", "0", "0", " ", " ", "1", ".",
      "0", "0", " ", " ", "1", ".", "0", "0", " ", " ", "1", ".", "0", "0", " ", " ", "1", ".",
      "0", "0", " ", " ", "1", ".", "0", "0", " ", " ", "1", ".", "0", "0", " ", " ", "1", ".",
      "0", "0", " ", " ", "1", ".", "0", "0">>

\* a 170-byte data line whose receiver latitude is not numeric
DataNanText ==
    <<" ", " ", "1", " ", " ", "1", " ", " ", " ", " ", "*", "*", "*", "*", "*", "*", " ", " ",
      " ", " ", " ", "2", "0", ".", "0", "0", " ", "1", "0", ".", "5", "0", " ", " ", " ", "2",
      "F", "2", " ", " ", "1", ".", "0", "0", " ", " ", "1", ".", "0", "0", " ", " ", "1", ".",
      "0", "0", " ", " ", "1", ".", "0", "0", " ", " ", "1", ".", "0", "0", " ", " ", "1", ".",
      "0", "0", " ", " ", "1", ".", "0", "0", " ", " ", "1", ".", "0", "0", " ", " ", "1", ".",
      "0", "0", " ", " ", "1", ".", "0", "0", " ", " ", "1", ".", "0", "0", " ", " ", "1", ".",
      "0", "0", " ", " ", "1", ".", "0", "0", " ", " ", "1", ".", "0", "0", " ", " ", "1", ".",
      "0", "0", " ", " ", "1", ".", "0", "0", " ", " ", "1", ".", "0", "0", " ", " ", "1", ".",
      "0", "0", " ", " ", "1", ".", "0", "0", " ", " ", "1", ".", "0", "0", " ", " ", "1", ".",
      "0", "0", " ", " ", "1", ".", "0", "0">>

\* a blank line
BlankText == <<>>

\* a line that starts with VOACAPL and is otherwise a well-formed header
BannerHeaderText ==
    <<"V", "O", "A", "C", "A", "P", "L", " ", "[", "1", "/", "4", " ", "w", "l", " ", "G", "u",
      "d", "]", " ", "1", ".", "5", "k", "W", " ", "-", "1", "d", "e", "g", " ", "0", "6", "u",
      "t", " ", "1", "4", ".", "1", "0", "0", "M", "H", "z", " ", "D", "e", "c", " ", "2", "5",
      "s", "s", "n">>

\* a 170-byte line of the fixed layout that ends with PWRCTANGLER
FooterDataText ==
    SubSeq(Data1Text, 1, 159)
        \o <<"P", "W", "R", "C", "T", "A", "N", "G", "L", "E", "R">>

\* a data line cut short: 164 bytes, its last column is missing
DataShortText == SubSeq(Data1Text, 1, 164)

LineTexts ==
    {BannerText, FooterText, Header1Text, Header2Text, HeaderTokText,
     HeaderNoBrText, HeaderLocText, Data1Text, DataNanText, BlankText,
     BannerHeaderText, FooterDataText, DataShortText}

\* the contents a file may have in a run of nf files
FileContents(nf) == UNION {[1..n -> LineTexts] : n \in 0..(MaxLines + 1 - nf)}

VOACAPL == <<"V", "O", "A", "C", "A", "P", "L">>

PWRCTANGLER == <<"P", "W", "R", "C", "T", "A", "N", "G", "L", "E", "R">>

ssn == <<"s", "s", "n">>

\* col_format: the widths of the 28 columns of a data line
col_format == <<3, 3, 10, 10>> \o [k \in 1..24 |-> 6]

RECURSIVE SumSeq(_)
SumSeq(s) == IF s = <<>> THEN 0 ELSE Head(s) + SumSeq(Tail(s))

\* struct.calcsize(col_format)
calcsize == SumSeq(col_format)

\* struct.unpack(col_format, line): its 28 fields, for a line of calcsize bytes
unpack(line) ==
    [k \in 1..Len(col_format) |->
        LET off == SumSeq(SubSeq(col_format, 1, k - 1))
        IN  Slice(line, off, off + col_format[k])]

(***************************************************************************)
(* The state of the program.                                                *)
(***************************************************************************)
VARIABLES
    txlat, txlon, utc, month, freq,   \* the context globals of collect_data
    rows,         \* the list of records
    rowsrc,       \* for each record, the lines it came from (see below)
    hdrsrc,       \* the <<file, line>> of the header that set utc, freq, month
    possrc,       \* the <<file, line>> of the header that set txlat, txlon
    global_lock,  \* 0, or the worker that holds the lock
    nfiles,       \* how many *.vg* files the run finds
    fileNo,       \* how many of them have been opened
    lines,        \* the lines of the file opened last
    fs,           \* the future of each line: pending, running, done, raised, cancelled
    res,          \* the future whose result the main thread waits for
    mainpc,       \* where the main thread is
    wpc,          \* where each worker is: idle, lock, body, grid
    wtask,        \* the line each worker runs
    db,           \* the database: rows committed, rows of the open transaction
    \* voaAreaPlot.py, the decoding of one .vg file for one plot
    data_type,    \* the key of IMG_TYPE_DICT the plot is made for
    points,       \* the matrix of the plot, img_grid_size rows of as many cells
    vgline,       \* the line of the .vg file read last (line of the for loop)
    vgread,       \* how many lines of the .vg file have been read
    vgplot,       \* how many .vg files have been opened
    vgwrites,     \* for each cell, how many lines stored a value in it (history)
    vgpc,         \* where VOAAreaPlot.__init__ is: off, loop, clipped, raised
    \* the locator codec, maiden2latlon and latlon2loc applied in turn
    codec,        \* [kind, step, loc, pos, loc2, pos2, prec, raised]
    \* plot_maps.py, one call of plot_maps(f)
    SELECTED_MAPS, \* the map types chosen, keys of MAP_CONFIG
    globbed,      \* f.parent.glob("*.vg*"): the suffixes of the files found
    vgs,          \* the sorted list of line 154
    vgi,          \* the place in vgs of the vg of the outer loop
    mapi,         \* the place in SELECTED_MAPS of the map_type of the inner loop
    calls,        \* the calls of subprocess.run so far: [vg, map, d, v]
    plotlog,      \* how each (vg, map_type) handled so far ended: [vg, map, out]
    warned,       \* the places in vgs skipped at line 166
    unit,         \* what lines 189-191 saw for the unit handled last
    plotpc,       \* where plot_maps is: off, start, vg, maps, done
    \* run_p2p_matrix.py, the loop over years and months and its tasks
    run_periods,  \* the (year, month) pairs of the two loops, in their order
    flist,        \* the frequencies of voacap.ini, as texts
    found,        \* what the final paths under pdir hold before the run
    period,       \* the place in run_periods of the year and month in force
    task,         \* for each period submitted and each frequency, the call of
                  \* make_voacap_predictions: [pc, prior, final, tmp, runs, rmfail,
                  \* at, seen]
    p2plog,       \* the (period, frequency) whose failure logging.error reported
    p2ppc,        \* where the main loop is: off, loop, pool, done
    \* voaAreaPlot.py, main: the command line and what is made of it
    cli,          \* [pc, data_type, dataType, vg, found, vg_files, i, n, printed,
                  \*  image]
    \* plot_maps.py, the pool of plot_maps calls over the .voa files
    pool          \* [pc, infiles, maps, call, files, writing, wrote, skipped]

ctx == <<txlat, txlon, utc, month, freq>>

\* History of the run, which no statement of the program reads: where the
\* context in force was set, and for each record of rows the line it was
\* made from (line) and where the context it was made with had been set
\* (hdr, pos).  <<0, 0>> stands for line 152.
hist == <<rowsrc, hdrsrc, possrc>>

vars ==
    <<txlat, txlon, utc, month, freq, rows, rowsrc, hdrsrc, possrc,
      global_lock, nfiles, fileNo, lines, fs, res, mainpc, wpc, wtask, db>>

\* the state of VOAAreaPlot.__init__
gvars == <<data_type, points, vgline, vgread, vgplot, vgwrites, vgpc>>

\* the state of one call of plot_maps
pvars ==
    <<SELECTED_MAPS, globbed, vgs, vgi, mapi, calls, plotlog, warned, unit, plotpc>>

\* the state of run_p2p_matrix.py
rvars == <<run_periods, flist, found, period, task, p2plog, p2ppc>>

\* the state of the programs together
allvars == <<vars, gvars, codec, pvars, rvars, cli, pool>>

\* the record cli holds while main of voaAreaPlot.py is not running
CliOff ==
    [pc |-> "off", data_type |-> PyInt(1), dataType |-> 0, vg |-> <<>>, found |-> {},
     vg_files |-> <<>>, i |-> 0, n |-> 0, printed |-> {}, image |-> 0]

\* the record pool holds while the pool of plot_maps.py is not running
PoolOff == [pc |-> "off"]

\* run_p2p_matrix.py is not running
MatrixOff ==
    /\ run_periods = <<>>
    /\ flist = <<>>
    /\ found = "none"
    /\ period = 0
    /\ task = <<>>
    /\ p2plog = {}
    /\ p2ppc = "off"

\* the modification times no file has given yet
NoStat == [out |-> 0, vg |-> 0, voa |-> 0]

\* plot_maps.py is not running
MapsOff ==
    /\ SELECTED_MAPS = <<>>
    /\ globbed = <<>>
    /\ vgs = <<>>
    /\ vgi = 0
    /\ mapi = 0
    /\ calls = <<>>
    /\ plotlog = <<>>
    /\ warned = {}
    /\ unit = NoStat
    /\ plotpc = "off"

\* the record codec holds while no codec function has run
CodecOff ==
    [kind |-> "off", step |-> 0, loc |-> <<>>, pos |-> [lat |-> 0, lon |-> 0],
     loc2 |-> <<>>, pos2 |-> [lat |-> 0, lon |-> 0],
     prec |-> 3, raised |-> FALSE]

\* the database before line 215: no row of the batch is in it, executemany
\* and commit have not been called
NoBatch == [rows |-> <<>>, txn |-> <<>>, execs |-> 0, commits |-> 0]

\* voaAreaPlot.py is not running
PlotOff ==
    /\ data_type = 1
    /\ points = <<>>
    /\ vgline = <<>>
    /\ vgread = 0
    /\ vgplot = 0
    /\ vgwrites = <<>>
    /\ vgpc = "off"

\* collect_data_to_database.py is not running: the state of line 152 with
\* no file to parse
CollectorOff ==
    /\ txlat = 0 - FloatUnit
    /\ txlon = 0 - FloatUnit
    /\ utc = PyInt(-1)
    /\ month = PyInt(-1)
    /\ freq = PyInt(-1)
    /\ rows = <<>>
    /\ rowsrc = <<>>
    /\ hdrsrc = <<0, 0>>
    /\ possrc = <<0, 0>>
    /\ global_lock = 0
    /\ nfiles = 0
    /\ fileNo = 0
    /\ lines = <<>>
    /\ fs = <<>>
    /\ res = 1
    /\ mainpc = "off"
    /\ wpc = [w \in 1..NumWorkers |-> "idle"]
    /\ wtask = [w \in 1..NumWorkers |-> 0]
    /\ db = NoBatch

Workers == 1..NumWorkers

\* a context of line 152 that held the text "-1" would be sliced
SentinelText == PyStr(<<"-", "1">>)

\* line 152: txlat, txlon, utc, month, freq = -1, -1, -1, -1, -1
Sentinel == PyInt(-1)

SentinelPos == 0 - FloatUnit

Init ==
    /\ txlat = SentinelPos
    /\ txlon = SentinelPos
    /\ utc = Sentinel
    /\ month = Sentinel
    /\ freq = Sentinel
    /\ rows = <<>>
    /\ rowsrc = <<>>
    /\ hdrsrc = <<0, 0>>
    /\ possrc = <<0, 0>>
    /\ global_lock = 0
    /\ nfiles \in 0..MaxFiles
    /\ fileNo = 0
    /\ lines = <<>>
    /\ fs = <<>>
    /\ res = 1
    /\ mainpc = "loop"
    /\ wpc = [w \in Workers |-> "idle"]
    /\ wtask = [w \in Workers |-> 0]
    /\ db = NoBatch
    /\ PlotOff
    /\ codec = CodecOff
    /\ MapsOff
    /\ MatrixOff
    /\ cli = CliOff
    /\ pool = PoolOff

(***************************************************************************)
(* collect_data, lines 86-141.  A worker runs it in steps: it takes the     *)
(* lock, runs lines 95-104, and for a header line that passed line 104 it   *)
(* runs lines 105-106 in a step of its own; the try block of lines 108-141  *)
(* and the release of the lock end the call.                                *)
(***************************************************************************)
Pending == {i \in 1..Len(fs) : fs[i] = "pending"}

\* a call that ended without leaving the with block of line 93
FinishKeepsLock(w, outcome) ==
    /\ global_lock' = global_lock
    /\ fs' = [fs EXCEPT ![wtask[w]] = outcome]
    /\ wpc' = [wpc EXCEPT ![w] = "idle"]
    /\ wtask' = [wtask EXCEPT ![w] = 0]

\* the call returns or raises: the lock is released, the future is set
Finish(w, outcome) ==
    /\ global_lock' = 0
    /\ fs' = [fs EXCEPT ![wtask[w]] = outcome]
    /\ wpc' = [wpc EXCEPT ![w] = "idle"]
    /\ wtask' = [wtask EXCEPT ![w] = 0]

\* TryRow with utc[:-2] and freq[:-3] taken of whatever utc and freq hold,
\* the int -1 of line 152 included
TryRowAnyType(d, rxlat, rxlon, lat, lon, u, m, f) ==
    IF ~rxlat.ok \/ ~rxlon.ok
    THEN [ok |-> FALSE, row |-> <<>>]
    ELSE [ok |-> TRUE,
          row |-> [utc |-> convert(PyStr(DropLast(u.s, 2))),
                   month |-> convert(m),
                   freq |-> convert(PyStr(DropLast(f.s, 3))),
                   txlat |-> convert(PyFloat(lat)),
                   txlon |-> convert(PyFloat(lon)),
                   d |-> [k \in 1..26 |-> convert(PyStr(d[k + 2]))],
                   kmdeg |-> calculate_km_deg(lat, lon, rxlat.n, rxlon.n)]]

\* lines 138-139: the record, once the columns d are unpacked and the
\* receiver position is read
TryRow(d, rxlat, rxlon, lat, lon, u, m, f) ==
    IF ~rxlat.ok \/ ~rxlon.ok \/ u.t # "str" \/ f.t # "str"
    THEN [ok |-> FALSE, row |-> <<>>]
    ELSE [ok |-> TRUE,
          row |-> [utc |-> convert(PyStr(DropLast(u.s, 2))),
                   month |-> convert(m),
                   freq |-> convert(PyStr(DropLast(f.s, 3))),
                   txlat |-> convert(PyFloat(lat)),
                   txlon |-> convert(PyFloat(lon)),
                   d |-> [k \in 1..26 |-> convert(PyStr(d[k + 2]))],
                   kmdeg |-> calculate_km_deg(lat, lon, rxlat.n, rxlon.n)]]

\* line 137: float(d1), float(d2)
TryFields(d, lat, lon, u, m, f) ==
    TryRow(d, ParseFloat(d[3]), ParseFloat(d[4]), lat, lon, u, m, f)

\* TryBlock with the columns cut from a line of any length
TryBlockAnyLength(line, lat, lon, u, m, f) ==
    TryFields(unpack(line), lat, lon, u, m, f)

\* lines 108-141: the record of a data line, [ok, row]; ok is FALSE where
\* the bare except swallows an error (struct.error, ValueError of float,
\* TypeError of subscripting the int -1)
TryBlock(line, lat, lon, u, m, f) ==
    IF Len(line) # calcsize THEN [ok |-> FALSE, row |-> <<>>]
    ELSE TryFields(unpack(line), lat, lon, u, m, f)

\* line 104: the segment after "]" and its tokens, [ok, toks]; ok is FALSE
\* where data_line[1] raises IndexError or the unpacking raises ValueError
HeaderTokens(line) ==
    LET data_line == SplitOn(Strip(line), "]")
        toks == IF Len(data_line) < 2 THEN <<>> ELSE SplitWS(Strip(data_line[2]))
    IN  [ok |-> Len(data_line) >= 2 /\ Len(toks) = 6, toks |-> toks]

\* line 105: data_line[0].split("[")[0].strip()
HeaderGrid(line) == Strip(SplitOn(SplitOn(Strip(line), "]")[1], "[")[1])

\* Ignored with the test for a header line made first
IgnoredUnlessHeader(line) ==
    /\ StartsWith(line, VOACAPL) \/ EndsWith(line, PWRCTANGLER)
    /\ ~EndsWith(line, ssn)

\* lines 95-99: the lines collect_data returns on at once
Ignored(line) == StartsWith(line, VOACAPL) \/ EndsWith(line, PWRCTANGLER)

\* line 102: the lines collect_data takes for a header
IsHeader(line) == ~Ignored(line) /\ EndsWith(line, ssn)

\* the pool: a free thread takes the oldest line waiting in the queue
Take(w) ==
    /\ wpc[w] = "idle"
    /\ Pending # {}
    /\ LET i == SetMin(Pending)
       IN  /\ fs' = [fs EXCEPT ![i] = "running"]
           /\ wtask' = [wtask EXCEPT ![w] = i]
    /\ wpc' = [wpc EXCEPT ![w] = "lock"]
    /\ UNCHANGED <<ctx, rows, hist, global_lock, nfiles, fileNo, lines, res, mainpc>>
    /\ UNCHANGED <<db, gvars, codec, pvars, rvars, cli, pool>>

\* Acquire without waiting for the lock to be free
AcquireHeld(w) ==
    /\ wpc[w] = "lock"
    /\ global_lock' = w
    /\ wpc' = [wpc EXCEPT ![w] = "body"]
    /\ UNCHANGED <<ctx, rows, hist, nfiles, fileNo, lines, fs, res, mainpc, wtask>>
    /\ UNCHANGED <<db, gvars, codec, pvars, rvars, cli, pool>>

\* line 93: with global_lock
Acquire(w) ==
    /\ wpc[w] = "lock"
    /\ global_lock = 0
    /\ global_lock' = w
    /\ wpc' = [wpc EXCEPT ![w] = "body"]
    /\ UNCHANGED <<ctx, rows, hist, nfiles, fileNo, lines, fs, res, mainpc, wtask>>
    /\ UNCHANGED <<db, gvars, codec, pvars, rvars, cli, pool>>

\* line 139 and the end of the with block: the record r.row, if there is
\* one, is appended and the call returns; pos is where the transmitter
\* position it was made with had been set
AppendAndReturn(w, r, pos) ==
    /\ rows' = IF r.ok THEN Append(rows, r.row) ELSE rows
    /\ rowsrc' = IF r.ok
                 THEN Append(rowsrc, [line |-> <<fileNo, wtask[w]>>,
                                      hdr |-> hdrsrc, pos |-> pos])
                 ELSE rowsrc
    /\ Finish(w, "done")

\* lines 108-141 and the end of the with block
TryAndReturn(w, lat, lon, pos) ==
    AppendAndReturn(w, TryBlock(lines[wtask[w]], lat, lon, utc, month, freq), pos)

\* HeaderLine with the month and the frequency tokens taken for each other
HeaderLineMonthFirst(w, h) ==
    IF h.ok
    THEN /\ utc' = PyStr(h.toks[3])
         /\ freq' = PyStr(h.toks[5])
         /\ month' = PyStr(h.toks[4])
         /\ hdrsrc' = <<fileNo, wtask[w]>>
         /\ wpc' = [wpc EXCEPT ![w] = "grid"]
         /\ UNCHANGED <<txlat, txlon, rows, rowsrc, possrc, global_lock, fs, wtask>>
    ELSE /\ Finish(w, "raised")
         /\ UNCHANGED <<ctx, rows, hist>>

\* line 104 of a header line whose tokens are h
HeaderLine(w, h) ==
    IF h.ok
    THEN /\ utc' = PyStr(h.toks[3])
         /\ freq' = PyStr(h.toks[4])
         /\ month' = PyStr(h.toks[5])
         /\ hdrsrc' = <<fileNo, wtask[w]>>
         /\ wpc' = [wpc EXCEPT ![w] = "grid"]
         /\ UNCHANGED <<txlat, txlon, rows, rowsrc, possrc, global_lock, fs, wtask>>
    ELSE /\ Finish(w, "raised")
         /\ UNCHANGED <<ctx, rows, hist>>

\* lines 95-104, and for a line that is no header lines 108-141
Body(w) ==
    /\ wpc[w] = "body"
    /\ IF Ignored(lines[wtask[w]])
       THEN /\ Finish(w, "done")
            /\ UNCHANGED <<ctx, rows, hist>>
       ELSE IF EndsWith(lines[wtask[w]], ssn)
       THEN HeaderLine(w, HeaderTokens(lines[wtask[w]]))
       ELSE /\ TryAndReturn(w, txlat, txlon, possrc)
            /\ UNCHANGED <<ctx, hdrsrc, possrc>>
    /\ UNCHANGED <<nfiles, fileNo, lines, res, mainpc>>
    /\ UNCHANGED <<db, gvars, codec, pvars, rvars, cli, pool>>

\* line 106 of a header line whose locator decodes to g
GridLine(w, g) ==
    IF g.ok
    THEN /\ txlat' = g.lat
         /\ txlon' = g.lon
         /\ possrc' = <<fileNo, wtask[w]>>
         /\ TryAndReturn(w, g.lat, g.lon, <<fileNo, wtask[w]>>)
    ELSE /\ Finish(w, "raised")
         /\ UNCHANGED <<txlat, txlon, rows, rowsrc, possrc>>

\* lines 105-106 of a header line, then lines 108-141
Grid(w) ==
    /\ wpc[w] = "grid"
    /\ GridLine(w, maiden2latlon(HeaderGrid(lines[wtask[w]])))
    /\ UNCHANGED <<utc, month, freq, hdrsrc, nfiles, fileNo, lines, res, mainpc>>
    /\ UNCHANGED <<db, gvars, codec, pvars, rvars, cli, pool>>

(***************************************************************************)
(* The main thread, lines 160-176.                                          *)
(***************************************************************************)
\* lines 162-167: the next file is read and every line is submitted
OpenFile ==
    /\ mainpc = "loop"
    /\ fileNo < nfiles
    /\ \E content \in FileContents(nfiles) :
          /\ lines' = content
          /\ fs' = [i \in 1..Len(content) |-> "pending"]
    /\ fileNo' = fileNo + 1
    /\ res' = 1
    /\ mainpc' = "map"
    /\ UNCHANGED <<ctx, rows, hist, global_lock, nfiles, wpc, wtask>>
    /\ UNCHANGED <<db, gvars, codec, pvars, rvars, cli, pool>>

\* line 167: the next result of executor.map is there
NextResult ==
    /\ mainpc = "map"
    /\ res <= Len(fs)
    /\ fs[res] = "done"
    /\ res' = res + 1
    /\ UNCHANGED <<ctx, rows, hist, global_lock, nfiles, fileNo, lines, fs, mainpc, wpc, wtask>>
    /\ UNCHANGED <<db, gvars, codec, pvars, rvars, cli, pool>>

\* line 167: the next result raises; the iterator of executor.map cancels
\* the futures no thread has taken
ResultRaises ==
    /\ mainpc = "map"
    /\ res <= Len(fs)
    /\ fs[res] = "raised"
    /\ fs' = [i \in 1..Len(fs) |-> IF fs[i] = "pending" THEN "cancelled" ELSE fs[i]]
    /\ mainpc' = "exit"
    /\ UNCHANGED <<ctx, rows, hist, global_lock, nfiles, fileNo, lines, res, wpc, wtask>>
    /\ UNCHANGED <<db, gvars, codec, pvars, rvars, cli, pool>>

\* line 166: the with block is left with the exception, after the running
\* calls have ended; nothing catches it and the script ends
ExitPool ==
    /\ mainpc = "exit"
    /\ \A i \in 1..Len(fs) : fs[i] # "running"
    /\ mainpc' = "crashed"
    /\ UNCHANGED <<ctx, rows, hist, global_lock, nfiles, fileNo, lines, fs, res, wpc, wtask>>
    /\ UNCHANGED <<db, gvars, codec, pvars, rvars, cli, pool>>

\* lines 168-174: every result was taken, the file is done
EndMap ==
    /\ mainpc = "map"
    /\ res > Len(fs)
    /\ mainpc' = "loop"
    /\ UNCHANGED <<ctx, rows, hist, global_lock, nfiles, fileNo, lines, fs, res, wpc, wtask>>
    /\ UNCHANGED <<db, gvars, codec, pvars, rvars, cli, pool>>

\* lines 176-213: the loop over the files has ended; the database is
\* opened and the table made if it is not there
Persist ==
    /\ mainpc = "loop"
    /\ fileNo = nfiles
    /\ mainpc' = "persist"
    /\ UNCHANGED <<ctx, rows, hist, global_lock, nfiles, fileNo, lines, fs, res, wpc, wtask>>
    /\ UNCHANGED <<db, gvars, codec, pvars, rvars, cli, pool>>

\* lines 215-216: executemany inserts every record of rows in the
\* transaction that sqlite3 opens before the first INSERT
ExecuteMany ==
    /\ mainpc = "persist"
    /\ db' = [db EXCEPT !.txn = rows, !.execs = db.execs + 1]
    /\ mainpc' = "inserted"
    /\ UNCHANGED <<ctx, rows, hist, global_lock, nfiles, fileNo, lines, fs, res, wpc, wtask>>
    /\ UNCHANGED <<gvars, codec, pvars, rvars, cli, pool>>

\* lines 215-216: executemany raises after k records; a sqlite3 with
\* isolation_level None would have made the k records durable one by one
ExecuteManyFailsAutocommit(k) ==
    /\ mainpc = "persist"
    /\ k < Len(rows)
    /\ db' = [db EXCEPT !.rows = SubSeq(rows, 1, k), !.execs = db.execs + 1]
    /\ mainpc' = "insert_failed"
    /\ UNCHANGED <<ctx, rows, hist, global_lock, nfiles, fileNo, lines, fs, res, wpc, wtask>>
    /\ UNCHANGED <<gvars, codec, pvars, rvars, cli, pool>>

\* lines 215-216: executemany raises after k records; nothing catches the
\* exception, the script ends before line 217 and the open transaction,
\* with the k records, is rolled back when the connection goes
ExecuteManyFails(k) ==
    /\ mainpc = "persist"
    /\ k < Len(rows)
    /\ db' = [db EXCEPT !.txn = SubSeq(rows, 1, k), !.execs = db.execs + 1]
    /\ mainpc' = "insert_failed"
    /\ UNCHANGED <<ctx, rows, hist, global_lock, nfiles, fileNo, lines, fs, res, wpc, wtask>>
    /\ UNCHANGED <<gvars, codec, pvars, rvars, cli, pool>>

\* line 217: commit makes the records of the transaction durable
Commit ==
    /\ mainpc = "inserted"
    /\ db' = [db EXCEPT !.rows = db.txn, !.txn = <<>>, !.commits = db.commits + 1]
    /\ mainpc' = "committed"
    /\ UNCHANGED <<ctx, rows, hist, global_lock, nfiles, fileNo, lines, fs, res, wpc, wtask>>
    /\ UNCHANGED <<gvars, codec, pvars, rvars, cli, pool>>

\* line 217: commit raises; the script ends and the transaction is rolled
\* back when the connection goes
CommitFails ==
    /\ mainpc = "inserted"
    /\ db' = [db EXCEPT !.commits = db.commits + 1]
    /\ mainpc' = "commit_failed"
    /\ UNCHANGED <<ctx, rows, hist, global_lock, nfiles, fileNo, lines, fs, res, wpc, wtask>>
    /\ UNCHANGED <<gvars, codec, pvars, rvars, cli, pool>>

Next ==
    \/ \E w \in Workers : Take(w)
    \/ \E w \in Workers : Acquire(w)
    \/ \E w \in Workers : Body(w)
    \/ \E w \in Workers : Grid(w)
    \/ OpenFile
    \/ NextResult
    \/ ResultRaises
    \/ ExitPool
    \/ EndMap
    \/ Persist
    \/ ExecuteMany
    \/ \E k \in 0..MaxLines * MaxFiles : ExecuteManyFails(k)
    \/ Commit
    \/ CommitFails

Spec == Init /\ [][Next]_allvars

\* the steps of one thread of the pool
WorkerStep(w) == Take(w) \/ Acquire(w) \/ Body(w) \/ Grid(w)

\* the thread w can take a step: a line waits in the queue (idle), the lock
\* is free (line 93), or it is inside the with block, where every statement
\* can run
CanStep(w) ==
    \/ wpc[w] = "idle" /\ Pending # {}
    \/ wpc[w] = "lock" /\ global_lock = 0
    \/ wpc[w] \in {"body", "grid"}

\* a step of the thread w, seen on its position alone: every step of
\* WorkerStep(w) moves w and no other step does
WorkerRuns(w) ==
    /\ CanStep(w)
    /\ \E p \in {"idle", "lock", "body", "grid"} \ {wpc[w]} :
          wpc' = [wpc EXCEPT ![w] = p]

\* WorkerRuns(w) and WorkerStep(w) are the same steps of the collector
WorkerRunsIsWorkerStep ==
    [][\A w \in Workers : WorkerStep(w) <=> WorkerRuns(w)]_allvars

\* the steps of the main thread inside the with block of line 166
MapStep ==
    \/ NextResult
    \/ ResultRaises
    \/ ExitPool
    \/ EndMap

\* the collector with threads that are scheduled: a thread of the pool
\* that can take a step, and the main thread while it waits for the
\* results, do not wait forever
FairSpec ==
    /\ Init
    /\ [][Next]_allvars
    /\ WF_allvars(MapStep)
    /\ \A w \in Workers : WF_wpc(WorkerRuns(w))

(***************************************************************************)
(* voaAreaPlot.py, VOAAreaPlot.__init__, lines 161-194: for each .vg file   *)
(* of the plot the matrix points is made of zeros, every line of the file   *)
(* is decoded into it, and np.clip is applied before the matrix goes to     *)
(* contourf.                                                                *)
(***************************************************************************)
\* img_grid_size, the rows and the columns of the matrix
GridSize == 2
\* the lines read of one .vg file
MaxVgLines == 3
\* len(vg_files), the .vg files of one run
MaxPlots == 2

\* IMG_TYPE_DICT, lines 48-67: min, max, first_char, last_char of each key
IMG_TYPE_DICT ==
    <<[min |-> 2 * FloatUnit, max |-> 30 * FloatUnit, first_char |-> 27, last_char |-> 32],
      [min |-> 0, max |-> FloatUnit, first_char |-> 98, last_char |-> 104],
      [min |-> 0, max |-> 100 * FloatUnit, first_char |-> 86, last_char |-> 92],
      [min |-> 0, max |-> 100 * FloatUnit, first_char |-> 128, last_char |-> 134],
      [min |-> 0 - 160 * FloatUnit, max |-> 0 - 60 * FloatUnit,
       first_char |-> 74, last_char |-> 80],
      [min |-> 0 - (15118 * FloatUnit) \div 100, max |-> 0 - (4301 * FloatUnit) \div 100,
       first_char |-> 74, last_char |-> 80]>>

\* self.image_defs, line 97
image_defs == IMG_TYPE_DICT[data_type]

\* np.zeros([img_grid_size, img_grid_size], float), line 163
Zeros == [r \in 1..GridSize |-> [c \in 1..GridSize |-> 0]]

\* the characters a-z
LowerSet == {Lower[i] : i \in 1..Len(Lower)}

\* pattern.search(line), lines 173 and 176: the line has a run of a-z
HasLower(s) == \E i \in 1..Len(s) : s[i] \in LowerSet

\* int(s) of a text: [ok, n]; ok is FALSE where int raises ValueError
ParseInt(s) ==
    LET b == Strip(s)
        u == Unsigned(b)
    IN  IF u # <<>> /\ \A i \in 1..Len(u) : InSeq(Digits, u[i])
        THEN [ok |-> TRUE,
              n |-> IF b[1] = "-" THEN 0 - DigitsValue(u) ELSE DigitsValue(u)]
        ELSE [ok |-> FALSE, n |-> 0]

\* max(a, b) and min(a, b) of Python
PyMax(a, b) == IF b > a THEN b ELSE a

PyMin(a, b) == IF b < a THEN b ELSE a

\* Clamp with the test against min left out
ClampMaxOnly(d, value) == PyMin(d.max, value)

\* lines 179-180: value = max(min, value); value = min(max, value)
Clamp(d, value) == PyMin(d.max, PyMax(d.min, value))

\* a[i] of a Python sequence of n items, i counted from zero: the place
\* counted from one, [ok, k]; a negative i counts from the end, and ok is
\* FALSE where the subscript raises IndexError
PyIndex(i, n) ==
    IF i >= 0 /\ i < n THEN [ok |-> TRUE, k |-> i + 1]
    ELSE IF i < 0 /\ i >= 0 - n THEN [ok |-> TRUE, k |-> i + n + 1]
    ELSE [ok |-> FALSE, k |-> 0]

\* Store with the row and the column taken for each other
StoreTransposed(pts, r, c, value) == [pts EXCEPT ![c][r] = value]

\* line 181: points[r][c] = value, r and c counted from one
Store(pts, r, c, value) == [pts EXCEPT ![r][c] = value]

\* line 181 once its three numbers are read: [ok, r, c, pts]
StoreAt(pts, r, c, value) ==
    IF r.ok /\ c.ok
    THEN [ok |-> TRUE, r |-> r.k, c |-> c.k, pts |-> Store(pts, r.k, c.k, value)]
    ELSE [ok |-> FALSE, r |-> 0, c |-> 0, pts |-> pts]

\* lines 178-181 of a line without a-z: [ok, r, c, pts]; ok is FALSE where
\* float or int raises ValueError or a subscript raises IndexError
DecodeFields(pts, d, value, row, col) ==
    IF value.ok /\ row.ok /\ col.ok
    THEN StoreAt(pts, PyIndex(row.n - 1, GridSize), PyIndex(col.n - 1, GridSize),
                 Clamp(d, value.n))
    ELSE [ok |-> FALSE, r |-> 0, c |-> 0, pts |-> pts]

DecodeLine(pts, d, l) ==
    DecodeFields(pts, d, ParseFloat(Slice(l, d.first_char, d.last_char)),
                 ParseInt(Slice(l, 3, 6)), ParseInt(Slice(l, 0, 3)))

\* np.clip(points, min, max), line 194
np_clip(pts, lo, hi) ==
    [r \in 1..GridSize |-> [c \in 1..GridSize |-> PyMin(hi, PyMax(lo, pts[r][c]))]]

\* the text of a column or row number n, -1 <= n <= 9, three characters wide
IdxText(n) == IF n < 0 THEN <<" ", "-", Digits[1 - n]>> ELSE <<" ", " ", Digits[n + 1]>>

\* a line of a .vg file: column, row, receiver position, and 24 columns of
\* six characters that all hold the text v
VgDataLine(col, row, v) ==
    IdxText(col) \o IdxText(row) \o SubSeq(Data1Text, 7, 26)
        \o v \o v \o v \o v \o v \o v \o v \o v \o v \o v \o v \o v
        \o v \o v \o v \o v \o v \o v \o v \o v \o v \o v \o v \o v \o <<"\n">>

\* the texts of a value below, inside and above the domain of each key of
\* IMG_TYPE_DICT (key 1 reads the last five of the six characters)
VgValueTexts ==
    <<{<<" ", " ", "1", ".", "5", "0">>, <<" ", "1", "4", ".", "1", "0">>,
       <<" ", "3", "5", ".", "0", "0">>},
      {<<" ", "-", "0", ".", "5", "0">>, <<" ", " ", "0", ".", "5", "0">>,
       <<" ", " ", "1", ".", "5", "0">>},
      {<<" ", "-", "0", ".", "5", "0">>, <<" ", "1", "4", ".", "1", "0">>,
       <<"1", "2", "0", ".", "0", "0">>},
      {<<" ", "-", "0", ".", "5", "0">>, <<" ", "1", "4", ".", "1", "0">>,
       <<"1", "2", "0", ".", "0", "0">>},
      {<<"-", "1", "7", "0", ".", "0">>, <<"-", "1", "0", "0", ".", "0">>,
       <<" ", "-", "0", ".", "5", "0">>},
      {<<"-", "1", "7", "0", ".", "0">>, <<"-", "1", "0", "0", ".", "0">>,
       <<" ", "-", "0", ".", "5", "0">>}>>

\* a line of the head of a .vg file
VgHeaderLine == Header1Text \o <<"\n">>

\* an empty line of a .vg file
VgBlankLine == <<"\n">>

\* the lines a .vg file may hold, for each key of IMG_TYPE_DICT
VgLineTexts ==
    [dt \in 1..6 |->
        {VgHeaderLine, VgBlankLine}
          \cup {VgDataLine(col, row, v) :
                  col \in (0 - 1)..(GridSize + 1), row \in (0 - 1)..(GridSize + 1),
                  v \in VgValueTexts[dt]}]

VgInit ==
    /\ data_type \in 1..6
    /\ points = <<>>
    /\ vgline = <<>>
    /\ vgread = 0
    /\ vgplot = 0
    /\ vgwrites = <<>>
    /\ vgpc = "start"
    /\ CollectorOff
    /\ codec = CodecOff
    /\ MapsOff
    /\ MatrixOff
    /\ cli = CliOff
    /\ pool = PoolOff

\* lines 161-173: the matrix of the next .vg file is made and the file opened
OpenVg ==
    /\ vgpc \in {"start", "clipped"}
    /\ vgplot < MaxPlots
    /\ points' = Zeros
    /\ vgwrites' = Zeros
    /\ vgline' = <<>>
    /\ vgread' = 0
    /\ vgplot' = vgplot + 1
    /\ vgpc' = "loop"
    /\ UNCHANGED <<data_type, vars, codec, pvars, rvars, cli, pool>>

\* lines 175-181 of a line l whose fields decode to g
DecodedLine(g) ==
    IF g.ok
    THEN /\ points' = g.pts
         /\ vgwrites' = [vgwrites EXCEPT ![g.r][g.c] = @ + 1]
         /\ vgpc' = vgpc
    ELSE /\ vgpc' = "raised"
         /\ UNCHANGED <<points, vgwrites>>

\* lines 175-181: one pass of the loop over the lines of the file
ReadLine ==
    /\ vgpc = "loop"
    /\ vgread < MaxVgLines
    /\ \E l \in VgLineTexts[data_type] :
          /\ vgline' = l
          /\ IF HasLower(l)
             THEN UNCHANGED <<points, vgwrites, vgpc>>
             ELSE DecodedLine(DecodeLine(points, image_defs, l))
    /\ vgread' = vgread + 1
    /\ UNCHANGED <<data_type, vgplot, vars, codec, pvars, rvars, cli, pool>>

\* Clip without np.clip
ClipNothing ==
    /\ vgpc = "loop"
    /\ vgpc' = "clipped"
    /\ UNCHANGED <<points, data_type, vgline, vgread, vgplot, vgwrites, vars, codec, pvars, rvars, cli, pool>>

\* lines 182-194: the file is at its end; np.clip, and the matrix goes to
\* contourf
Clip ==
    /\ vgpc = "loop"
    /\ points' = np_clip(points, image_defs.min, image_defs.max)
    /\ vgpc' = "clipped"
    /\ UNCHANGED <<data_type, vgline, vgread, vgplot, vgwrites, vars, codec, pvars, rvars, cli, pool>>

VgNext ==
    \/ OpenVg
    \/ ReadLine
    \/ Clip

VgSpec == VgInit /\ [][VgNext]_allvars

(***************************************************************************)
(* The locator codec: maiden2latlon of collect_data_to_database.py and      *)
(* latlon2loc of run_p2p_matrix.py, lines 38-66, applied one after the      *)
(* other.  Positions are in units of 1/6000 degree; inside latlon2loc the   *)
(* halved longitude needs units of 1/12000 degree, and the divmod of        *)
(* floats is the exact one.                                                 *)
(***************************************************************************)
\* chr(n) for the codes of A-Z, a-z and 0-9
Chr(n) ==
    IF n >= 65 /\ n <= 90 THEN Upper[n - 64]
    ELSE IF n >= 97 /\ n <= 122 THEN Lower[n - 96]
    ELSE Digits[n - 47]

\* str(n) of a number 0..9
Str(n) == Digits[n + 1]

\* s.lower() and s.upper()
ToLower(s) ==
    [i \in 1..Len(s) |-> IF InSeq(Upper, s[i]) THEN Lower[IndexOf(Upper, s[i])] ELSE s[i]]

ToUpper(s) ==
    [i \in 1..Len(s) |-> IF InSeq(Lower, s[i]) THEN Upper[IndexOf(Lower, s[i])] ELSE s[i]]

\* lines 50-61: the while loop of latlon2loc; lon and lat in 1/12000
RECURSIVE LocLoop(_, _, _, _, _)
LocLoop(i, lon, lat, astring, precision) ==
    IF i >= precision THEN astring
    ELSE IF (i + 1) % 2 = 0
    THEN LocLoop(i + 1, 24 * (lon % (2 * FloatUnit)), 24 * (lat % (2 * FloatUnit)),
                 astring \o <<Str(lon \div (2 * FloatUnit)), Str(lat \div (2 * FloatUnit))>>,
                 precision)
    ELSE LocLoop(i + 1, 10 * (lon % (2 * FloatUnit)), 10 * (lat % (2 * FloatUnit)),
                 astring \o <<Chr(65 + lon \div (2 * FloatUnit)),
                              Chr(65 + lat \div (2 * FloatUnit))>>,
                 precision)

\* lines 63-64: the fifth and sixth characters in lower case
LowerPair(astring) ==
    IF Len(astring) >= 6
    THEN Slice(astring, 0, 4) \o ToLower(Slice(astring, 4, 6))
            \o Slice(astring, 6, Len(astring))
    ELSE astring

\* latlon2loc(lat, lon, precision), lat and lon in 1/6000
latlon2loc(lat, lon, precision) ==
    ToUpper(LowerPair(
        LocLoop(1,
                (lon + 180 * FloatUnit) % (20 * FloatUnit),
                2 * ((lat + 90 * FloatUnit) % (10 * FloatUnit)),
                <<Chr(65 + (lon + 180 * FloatUnit) \div (20 * FloatUnit)),
                  Chr(65 + (lat + 90 * FloatUnit) \div (10 * FloatUnit))>>,
                precision)))

\* the locators given to the codec: fields, squares and subsquares at the
\* ends and inside their ranges, the subsquare in lower or in upper case
SampleLocators ==
    {<<f1, f2, d1, d2>> \o sub :
        f1 \in {"A", "K", "R"}, f2 \in {"A", "P", "R"},
        d1 \in {"0", "9"}, d2 \in {"3", "9"},
        sub \in {<<"a", "a">>, <<"q", "a">>, <<"m", "n">>, <<"x", "x">>,
                 <<"A", "A">>, <<"Q", "A">>, <<"M", "N">>, <<"X", "X">>}}

\* the positions given to the codec, in 1/6000: the ends of both ranges and
\* points inside
SamplePositions ==
    {[lat |-> la, lon |-> lo] :
        la \in {0 - 90 * FloatUnit, 0 - 273000, 0, 378120, 539940, 90 * FloatUnit},
        lo \in {0 - 180 * FloatUnit, 0 - 60, 0, 128220, 1079940, 180 * FloatUnit}}

\* locators outside the Maidenhead alphabet: too short, a field letter
\* after R, a letter or a sign where a digit belongs, a subsquare letter
\* after X, a digit where a letter belongs
MalformedLocators ==
    {<<>>, <<"K">>, <<"K", "P">>, <<"K", "P", "0">>,
     <<"S", "P", "0", "3", "q", "a">>, <<"K", "Z", "0", "3", "Q", "A">>,
     <<"K", "P", "A", "3", "Q", "A">>, <<"K", "P", "0", "-", "Q", "A">>,
     <<"K", "P", "0", "3", "Y", "A">>, <<"K", "P", "0", "3", "Q", "7">>,
     <<"4", "P", "0", "3", "Q", "A">>}

\* locators of two pairs, which the alphabet allows and maiden2latlon
\* cannot read, and of two pairs and a half
ShortLocators == {<<"K", "P", "0", "3">>, <<"K", "P", "0", "3", "Q">>}

\* the largest precision latlon2loc is called with
MaxPrecision == 4

LocInit ==
    /\ \/ \E l \in SampleLocators \cup MalformedLocators \cup ShortLocators :
            codec = [CodecOff EXCEPT !.kind = "L", !.loc = l]
       \/ \E q \in SamplePositions, p \in 3..MaxPrecision :
            codec = [CodecOff EXCEPT !.kind = "P", !.pos = q, !.prec = p]
    /\ CollectorOff
    /\ PlotOff
    /\ MapsOff
    /\ MatrixOff
    /\ cli = CliOff
    /\ pool = PoolOff

\* the position maiden2latlon returns
Decoded(l) == [lat |-> maiden2latlon(l).lat, lon |-> maiden2latlon(l).lon]

\* maiden2latlon is applied: to the locator given, or to the locator made
\* and returns a position; where ord() raises TypeError nothing is returned
DecodeLoc ==
    /\ \/ /\ codec.kind = "L" /\ codec.step = 0
          /\ codec' = [codec EXCEPT !.pos = Decoded(codec.loc), !.step = 1,
                                    !.raised = ~maiden2latlon(codec.loc).ok]
       \/ /\ codec.kind = "P" /\ codec.step = 1
          /\ codec' = [codec EXCEPT !.pos2 = Decoded(codec.loc), !.step = 2]
    /\ UNCHANGED <<vars, gvars, pvars, rvars, cli, pool>>

\* latlon2loc is applied: to the position given, with the precision given,
\* or with its default precision of 3 to the position decoded
EncodePos ==
    /\ \/ /\ codec.kind = "P" /\ codec.step = 0
          /\ codec' = [codec EXCEPT
                          !.loc = latlon2loc(codec.pos.lat, codec.pos.lon, codec.prec),
                          !.step = 1]
       \/ /\ codec.kind = "L" /\ codec.step = 1 /\ ~codec.raised
          /\ codec' = [codec EXCEPT !.loc2 = latlon2loc(codec.pos.lat, codec.pos.lon, 3),
                                    !.step = 2]
    /\ UNCHANGED <<vars, gvars, pvars, rvars, cli, pool>>

LocNext ==
    \/ DecodeLoc
    \/ EncodePos

LocSpec == LocInit /\ [][LocNext]_allvars

(***************************************************************************)
(* plot_maps.py, one call of plot_maps(f), lines 150-217: the VG files next *)
(* to the .voa file f are sorted, and for each of them and each selected    *)
(* map type the renderer is run unless the output is up to date.  A file is *)
(* known by its suffix (Path.suffix), a modification time is 1 or 2, and 0  *)
(* stands for a file that is not there, for which stat() raises.  The       *)
(* calls of plot_maps for different .voa files share no variable.           *)
(***************************************************************************)
\* the VG files found next to one .voa file
MaxVgs == 2
\* the map types selected
MaxMaps == 2

\* lines 42-48: MAP_CONFIG, the -d option of cmd and the directory
MAP_CONFIG ==
    [REL |-> [d |-> 2, dir |-> "REL"],
     SNR50 |-> [d |-> 3, dir |-> "SNR50"],
     SNR90 |-> [d |-> 4, dir |-> "SNR90"],
     SDBW |-> [d |-> 5, dir |-> "SDBW"],
     MUF |-> [d |-> 1, dir |-> "MUF"]]

\* the suffixes of files that match *.vg*: x.vg2, x.vg10, x.vg3a and x.vg
VgSuffixes ==
    {<<".", "v", "g", "2">>, <<".", "v", "g", "1", "0">>,
     <<".", "v", "g", "3", "a">>, <<".", "v", "g">>}

\* the map types the user selects from
MapChoices == {"REL", "MUF"}

\* the lists of n different members of S
Arrangements(S, n) ==
    {q \in [1..n -> S] : \A i, j \in 1..n : q[i] = q[j] => i = j}

\* RE_SUFFIX_NUM_END.search(s).group(1): the digits s ends with, <<>> if
\* the search finds nothing
TrailingDigits(s) ==
    SubSeq(s, SetMin({i \in 1..(Len(s) + 1) :
                        \A k \in i..Len(s) : InSeq(Digits, s[k])}), Len(s))

\* a key that compares the numbers as text does, by their first digit
SortKeyFirstDigit(s) ==
    IF TrailingDigits(s) # <<>> THEN Ord(TrailingDigits(s)[1]) - 48 ELSE 0

\* lines 156-158: the key of sorted()
SortKey(s) ==
    IF TrailingDigits(s) # <<>> THEN DigitsValue(TrailingDigits(s)) ELSE 0

\* sorted(t + [x], key): x goes after the members of the sorted list t
\* whose key is not greater (the sort is stable)
InsertByKey(t, x) ==
    SubSeq(t, 1, Cardinality({i \in 1..Len(t) : SortKey(t[i]) <= SortKey(x)}))
      \o <<x>>
      \o SubSeq(t, Cardinality({i \in 1..Len(t) : SortKey(t[i]) <= SortKey(x)}) + 1,
                Len(t))

\* lines 154-159: sorted(glob, key)
RECURSIVE SortedByKey(_)
SortedByKey(q) ==
    IF q = <<>> THEN <<>>
    ELSE InsertByKey(SortedByKey(SubSeq(q, 1, Len(q) - 1)), q[Len(q)])

\* RE_VG_SUFFIX.match(suf): ".vg" in either case, then digits to the end
MatchesVgSuffix(suf) ==
    /\ Len(suf) >= 4
    /\ suf[1] = "."
    /\ suf[2] \in {"v", "V"}
    /\ suf[3] \in {"g", "G"}
    /\ \A k \in 4..Len(suf) : InSeq(Digits, suf[k])

\* re.search(r"(\d+)", suf).group(1): the first run of digits, from the
\* first digit at place a
DigitRun(suf, a) ==
    SubSeq(suf, a, SetMax({b \in a..Len(suf) : \A k \in a..b : InSeq(Digits, suf[k])}))

\* lines 137-147: _safe_vg_number, of the suffix; <<>> stands for None
safe_vg_number(suf) ==
    IF MatchesVgSuffix(suf) THEN SubSeq(suf, 4, Len(suf))
    ELSE IF \E k \in 1..Len(suf) : InSeq(Digits, suf[k])
    THEN DigitRun(suf, SetMin({k \in 1..Len(suf) : InSeq(Digits, suf[k])}))
    ELSE <<>>

\* lines 189-192: the output is there and not older than both inputs
UpToDateVgOnly(st) == st.out > 0 /\ st.vg > 0 /\ st.out >= st.vg

UpToDate(st) ==
    /\ st.out > 0
    /\ st.vg > 0
    /\ st.voa > 0
    /\ st.out >= PyMax(st.vg, st.voa)

\* what the three files may show at lines 189-191; the .voa file is there
Stats == [out : 0..2, vg : 0..2, voa : 1..2]

\* how subprocess.run may end: exit code 0, another exit code,
\* TimeoutExpired, another exception
RunResults == {"ok", "rc", "timeout", "error"}

MapsInit ==
    /\ SELECTED_MAPS \in UNION {[1..n -> MapChoices] : n \in 1..MaxMaps}
    /\ globbed \in UNION {Arrangements(VgSuffixes, n) : n \in 0..MaxVgs}
    /\ vgs = <<>>
    /\ vgi = 0
    /\ mapi = 0
    /\ calls = <<>>
    /\ plotlog = <<>>
    /\ warned = {}
    /\ unit = NoStat
    /\ plotpc = "start"
    /\ CollectorOff
    /\ PlotOff
    /\ codec = CodecOff
    /\ MatrixOff
    /\ cli = CliOff
    /\ pool = PoolOff

\* lines 154-162: the VG files are sorted; without any the call returns
SortVgs ==
    /\ plotpc = "start"
    /\ vgs' = SortedByKey(globbed)
    /\ vgi' = 1
    /\ plotpc' = IF globbed = <<>> THEN "done" ELSE "vg"
    /\ UNCHANGED <<SELECTED_MAPS, globbed, mapi, calls, plotlog, warned, unit>>
    /\ UNCHANGED <<vars, gvars, codec, rvars, cli, pool>>

\* lines 164-170: the next VG file; without a selector it is skipped with
\* a warning
NextVg ==
    /\ plotpc = "vg"
    /\ vgi <= Len(vgs)
    /\ IF safe_vg_number(vgs[vgi]) = <<>>
       THEN /\ warned' = warned \cup {vgi}
            /\ vgi' = vgi + 1
            /\ UNCHANGED <<mapi, plotpc>>
       ELSE /\ mapi' = 1
            /\ plotpc' = "maps"
            /\ UNCHANGED <<warned, vgi>>
    /\ UNCHANGED <<SELECTED_MAPS, globbed, vgs, calls, plotlog, unit>>
    /\ UNCHANGED <<vars, gvars, codec, rvars, cli, pool>>

\* a loop that a failed unit ends: return in the place of continue
NextUnitOrReturn(out) ==
    IF out \in {"mkdir", "rc", "timeout", "error"}
    THEN /\ plotpc' = "done"
         /\ UNCHANGED <<mapi, vgi>>
    ELSE IF mapi < Len(SELECTED_MAPS)
    THEN /\ mapi' = mapi + 1
         /\ UNCHANGED <<vgi, plotpc>>
    ELSE /\ vgi' = vgi + 1
         /\ plotpc' = "vg"
         /\ UNCHANGED mapi

\* continue, or the end of the body of the inner loop: the next map type,
\* and after the last one the next VG file
NextUnit(out) ==
    IF mapi < Len(SELECTED_MAPS)
    THEN /\ mapi' = mapi + 1
         /\ UNCHANGED <<vgi, plotpc>>
    ELSE /\ vgi' = vgi + 1
         /\ plotpc' = "vg"
         /\ UNCHANGED mapi

\* the unit ends as out
Logged(out) ==
    /\ plotlog' = Append(plotlog, [vg |-> vgi, at |-> mapi, map |-> SELECTED_MAPS[mapi],
                                   out |-> out])
    /\ NextUnit(out)

\* lines 176-182: outdir.mkdir raises; the error is printed
MkdirFails ==
    /\ plotpc = "maps"
    /\ unit' = NoStat
    /\ Logged("mkdir")
    /\ UNCHANGED <<SELECTED_MAPS, globbed, vgs, calls, warned>>
    /\ UNCHANGED <<vars, gvars, codec, rvars, cli, pool>>

\* lines 185-192: the output is up to date, the renderer is not run
SkipUpToDate ==
    /\ plotpc = "maps"
    /\ \E st \in Stats :
          /\ UpToDate(st)
          /\ unit' = st
    /\ Logged("fresh")
    /\ UNCHANGED <<SELECTED_MAPS, globbed, vgs, calls, warned>>
    /\ UNCHANGED <<vars, gvars, codec, rvars, cli, pool>>

\* lines 185-217: the output is not up to date, or a stat() raised (line
\* 193); the renderer is run once with the selector of the VG file and
\* ends as r, which is printed unless it is exit code 0
RunRenderer ==
    /\ plotpc = "maps"
    /\ \E st \in Stats :
          /\ ~UpToDate(st)
          /\ unit' = st
    /\ calls' = Append(calls, [vg |-> vgi, at |-> mapi, map |-> SELECTED_MAPS[mapi],
                               d |-> MAP_CONFIG[SELECTED_MAPS[mapi]].d,
                               v |-> safe_vg_number(vgs[vgi])])
    /\ \E r \in RunResults : Logged(r)
    /\ UNCHANGED <<SELECTED_MAPS, globbed, vgs, warned>>
    /\ UNCHANGED <<vars, gvars, codec, rvars, cli, pool>>

\* line 164: the loop over the VG files has ended
EndPlot ==
    /\ plotpc = "vg"
    /\ vgi > Len(vgs)
    /\ plotpc' = "done"
    /\ UNCHANGED <<SELECTED_MAPS, globbed, vgs, vgi, mapi, calls, plotlog, warned, unit>>
    /\ UNCHANGED <<vars, gvars, codec, rvars, cli, pool>>

MapsNext ==
    \/ SortVgs
    \/ NextVg
    \/ MkdirFails
    \/ SkipUpToDate
    \/ RunRenderer
    \/ EndPlot

MapsSpec == MapsInit /\ [][MapsNext]_allvars

(***************************************************************************)
(* run_p2p_matrix.py: the loop over years and months of lines 336-361 and   *)
(* the calls of make_voacap_predictions it submits, lines 108-234.  The     *)
(* calls of one month run side by side in the pool of line 354; the with    *)
(* block ends when all of them have ended.  Each call has a run directory   *)
(* of its own, pdir/year/month/freq.  In it the final path cap_<freq>.voa   *)
(* holds nothing ("none"), a deck written before ("old"), the new deck      *)
(* ("new") or a part of it ("partial"); the .tmp sibling holds nothing, a   *)
(* part of the new deck or all of it ("full").                              *)
(***************************************************************************)
\* the (year, month) pairs of one run
MaxPeriods == 2
\* the frequencies of flist
MaxFreqs == 2

\* the texts flist may hold: 7.1, 14.1 and abc, which float() refuses
FreqTexts == {<<"7", ".", "1">>, <<"1", "4", ".", "1">>, <<"a", "b", "c">>}

\* run_years and run_months, sorted and without repetition (lines 304, 313),
\* as the list of pairs the two for loops go through; the first pair is
\* January 2025
PeriodLists ==
    {q \in UNION {[1..n -> {2025, 2026} \X {1, 2}] : n \in 1..MaxPeriods} :
        \E ys \in SUBSET {2025, 2026}, ms \in SUBSET {1, 2} :
            /\ q[1] = <<2025, 1>>
            /\ Len(q) = Cardinality(ys) * Cardinality(ms)
            /\ {q[k] : k \in 1..Len(q)} = ys \X ms
            /\ \A k, l \in 1..Len(q) :
                  k < l => \/ q[k][1] < q[l][1]
                           \/ q[k][1] = q[l][1] /\ q[k][2] < q[l][2]}

\* a call that executor.submit has queued; the final path holds what was
\* found there.  at tells where the file is that the call has open.
Queued ==
    [pc |-> "queued", prior |-> "none", final |-> found, tmp |-> "none",
     runs |-> 0, rmfail |-> FALSE, at |-> "none", seen |-> 0]

\* how a call that has ended may stand
EndedPc ==
    {"done", "raised", "failed_mkdir", "failed_write", "failed_exe",
     "failed_rc", "failed_timeout", "failed_error"}

\* line 160: rundir ends with the text freq, and line 134 names the deck
\* after it, so that the calls of equal entries of flist work on the same
\* files; the fields final and tmp of the first of them hold these files
Owner(i) == SetMin({j \in 1..Len(flist) : flist[j] = flist[i]})

\* line 270: flist is the configured text split at white space, with the
\* repetitions it has
FreqLists == UNION {[1..n -> FreqTexts] : n \in 1..MaxFreqs}

MatrixInit ==
    /\ run_periods \in PeriodLists
    /\ flist \in FreqLists
    /\ found \in {"none", "old"}
    /\ period = 0
    /\ task = <<>>
    /\ p2plog = {}
    /\ p2ppc = "loop"
    /\ CollectorOff
    /\ PlotOff
    /\ codec = CodecOff
    /\ MapsOff
    /\ cli = CliOff
    /\ pool = PoolOff

\* lines 336-356: the next year and month; a pool is made and one call per
\* entry of flist is submitted
Submit ==
    /\ p2ppc = "loop"
    /\ period < Len(run_periods)
    /\ period' = period + 1
    /\ task' = Append(task, [i \in 1..Len(flist) |-> Queued])
    /\ p2ppc' = "pool"
    /\ UNCHANGED <<run_periods, flist, found, p2plog>>
    /\ UNCHANGED <<vars, gvars, codec, pvars, cli, pool>>

\* lines 113-166 of the call that period p submitted for the frequency at
\* place i: the call reads the module-level year, month and ssn in force
\* (lines 129-130, 160; seen is the period they belong to); float(freq) of
\* line 134 raises ValueError out of the call; else the run directory is
\* made, or mkdir fails, which is logged.  prior is what the call finds at
\* the final path.
Begin(p, i) ==
    /\ p \in 1..Len(task)
    /\ task[p][i].pc = "queued"
    /\ IF ~ParseFloat(flist[i]).ok
       THEN /\ task' = [task EXCEPT ![p][i] = [@ EXCEPT !.pc = "raised", !.seen = period]]
            /\ UNCHANGED p2plog
       ELSE \/ /\ task' = [task EXCEPT ![p][i] =
                          [@ EXCEPT !.pc = "failed_mkdir", !.seen = period]]
               /\ p2plog' = p2plog \cup {<<p, i>>}
            \/ /\ task' = [task EXCEPT ![p][i] =
                          [@ EXCEPT !.pc = "write", !.seen = period,
                                    !.prior = task[p][Owner(i)].final]]
               /\ UNCHANGED p2plog
    /\ UNCHANGED <<run_periods, flist, found, period, p2ppc>>
    /\ UNCHANGED <<vars, gvars, codec, pvars, cli, pool>>

\* where an open file is after the file at the .tmp path was renamed to
\* the final path, or was unlinked
Moved(a, ev) ==
    IF ev = "rename"
    THEN (IF a = "tmp" THEN "final" ELSE IF a = "final" THEN "gone" ELSE a)
    ELSE IF ev = "unlink" /\ a = "tmp" THEN "gone" ELSE a

\* the calls of the month after a step of call i that leaves it at pc with
\* the file it has open at a, the two files of its directory as fin and
\* tmp, and rm telling whether a removal failed; ev is what happened to
\* the file at the .tmp path
Step(p, i, pc, a, fin, tmp, rm, ev) ==
    [k \in 1..Len(flist) |->
        [task[p][k] EXCEPT
            !.pc = IF k = i THEN pc ELSE @,
            !.rmfail = IF k = i THEN rm ELSE @,
            !.at = IF k = i THEN a
                   ELSE IF Owner(k) = Owner(i) THEN Moved(@, ev) ELSE @,
            !.final = IF k = Owner(i) THEN fin ELSE @,
            !.tmp = IF k = Owner(i) THEN tmp ELSE @]]

\* lines 173-180: the except branch logs; tmp.unlink removes the file at
\* the .tmp path if there is one, unless unlink raises, which line 178
\* ignores
CleanUp(p, i) ==
    /\ \E rm \in {r \in BOOLEAN : task[p][Owner(i)].tmp = "none" => r} :
          task' = [task EXCEPT ![p] =
                     Step(p, i, "failed_write", "none", task[p][Owner(i)].final,
                          IF rm THEN "none" ELSE task[p][Owner(i)].tmp, ~rm,
                          IF rm THEN "unlink" ELSE "none")]
    /\ p2plog' = p2plog \cup {<<p, i>>}

\* line 171: tmp.write_text opens the .tmp path for writing, which makes
\* the file or empties the one that is there, or raises
OpenTmp(p, i) ==
    /\ p \in 1..Len(task)
    /\ task[p][i].pc = "write"
    /\ \/ /\ task' = [task EXCEPT ![p] =
                        Step(p, i, "writing", "tmp", task[p][Owner(i)].final,
                             "partial", FALSE, "none")]
          /\ UNCHANGED p2plog
       \/ CleanUp(p, i)
    /\ UNCHANGED <<run_periods, flist, found, period, p2ppc>>
    /\ UNCHANGED <<vars, gvars, codec, pvars, cli, pool>>

\* line 171: tmp.write_text writes the whole deck to the file it has open,
\* wherever that file is by now, and closes it, or raises
WriteDeck(p, i) ==
    /\ p \in 1..Len(task)
    /\ task[p][i].pc = "writing"
    /\ \/ /\ task' = [task EXCEPT ![p] =
                        Step(p, i, "replace", "none",
                             IF task[p][i].at = "final"
                             THEN "new" ELSE task[p][Owner(i)].final,
                             IF task[p][i].at = "tmp"
                             THEN "full" ELSE task[p][Owner(i)].tmp,
                             FALSE, "none")]
          /\ UNCHANGED p2plog
       \/ CleanUp(p, i)
    /\ UNCHANGED <<run_periods, flist, found, period, p2ppc>>
    /\ UNCHANGED <<vars, gvars, codec, pvars, cli, pool>>

\* line 172: tmp.replace(voa_path) renames the file at the .tmp path to the
\* final path in one step, or raises and leaves both as they are; it
\* raises where there is no file at the .tmp path
ReplaceDeck(p, i) ==
    /\ p \in 1..Len(task)
    /\ task[p][i].pc = "replace"
    /\ \/ /\ task[p][Owner(i)].tmp # "none"
          /\ task' = [task EXCEPT ![p] =
                        Step(p, i, "exe", "none",
                             IF task[p][Owner(i)].tmp = "full"
                             THEN "new" ELSE "partial",
                             "none", FALSE, "rename")]
          /\ UNCHANGED p2plog
       \/ CleanUp(p, i)
    /\ UNCHANGED <<run_periods, flist, found, period, p2ppc>>
    /\ UNCHANGED <<vars, gvars, codec, pvars, cli, pool>>

\* lines 183-234: without the voacapl binary the call returns; else voacapl
\* is run once and ends with exit code 0, with another exit code
\* (CalledProcessError), with TimeoutExpired or with another exception
RunVoacapl(p, i) ==
    /\ p \in 1..Len(task)
    /\ task[p][i].pc = "exe"
    /\ \/ /\ task' = [task EXCEPT ![p][i].pc = "failed_exe"]
          /\ p2plog' = p2plog \cup {<<p, i>>}
       \/ /\ task' = [task EXCEPT ![p][i] =
                         [@ EXCEPT !.pc = "done", !.runs = @ + 1]]
          /\ UNCHANGED p2plog
       \/ /\ \E r \in {"failed_rc", "failed_timeout", "failed_error"} :
                task' = [task EXCEPT ![p][i] = [@ EXCEPT !.pc = r, !.runs = @ + 1]]
          /\ p2plog' = p2plog \cup {<<p, i>>}
    /\ UNCHANGED <<run_periods, flist, found, period, p2ppc>>
    /\ UNCHANGED <<vars, gvars, codec, pvars, cli, pool>>

\* the calls of the month in force have all ended
AllEnded == \A i \in 1..Len(flist) : task[period][i].pc \in EndedPc

\* a with block that is left without waiting for its calls: no fut.result()
\* and a shutdown of the pool that does not wait
CollectNoWait ==
    /\ p2ppc = "pool"
    /\ p2plog' = p2plog \cup
                   {<<period, i>> : i \in {j \in 1..Len(flist) : task[period][j].pc = "raised"}}
    /\ p2ppc' = "loop"
    /\ UNCHANGED <<run_periods, flist, found, period, task>>
    /\ UNCHANGED <<vars, gvars, codec, pvars, cli, pool>>

\* lines 354-361: fut.result() of every future; the exception of a call is
\* caught and logged, and the with block is left, which waits for the
\* calls of the pool
Collect ==
    /\ p2ppc = "pool"
    /\ AllEnded
    /\ p2plog' = p2plog \cup
                   {<<period, i>> : i \in {j \in 1..Len(flist) : task[period][j].pc = "raised"}}
    /\ p2ppc' = "loop"
    /\ UNCHANGED <<run_periods, flist, found, period, task>>
    /\ UNCHANGED <<vars, gvars, codec, pvars, cli, pool>>

\* line 363: the loops have ended
EndRun ==
    /\ p2ppc = "loop"
    /\ period = Len(run_periods)
    /\ p2ppc' = "done"
    /\ UNCHANGED <<run_periods, flist, found, period, task, p2plog>>
    /\ UNCHANGED <<vars, gvars, codec, pvars, cli, pool>>

MatrixNext ==
    \/ Submit
    \/ \E p \in 1..Len(task), i \in 1..Len(flist) : Begin(p, i)
    \/ \E p \in 1..Len(task), i \in 1..Len(flist) : OpenTmp(p, i)
    \/ \E p \in 1..Len(task), i \in 1..Len(flist) : WriteDeck(p, i)
    \/ \E p \in 1..Len(task), i \in 1..Len(flist) : ReplaceDeck(p, i)
    \/ \E p \in 1..Len(task), i \in 1..Len(flist) : RunVoacapl(p, i)
    \/ Collect
    \/ EndRun

MatrixSpec == MatrixInit /\ [][MatrixNext]_allvars

(***************************************************************************)
(* voaAreaPlot.py, main: lines 399-448, and line 97 of VOAAreaPlot.__init__ *)
(* that main calls.  argparse hands the text of an option as it was given,  *)
(* or the default of the option.                                            *)
(***************************************************************************)
\* args.data_type: the default of line 323 or the text after -d
DataTypeArgs ==
    {PyInt(1), PyStr(<<"1">>), PyStr(<<"2">>), PyStr(<<"6">>), PyStr(<<"7">>),
     PyStr(<<"0">>), PyStr(<<"x">>), PyStr(<<>>)}

\* args.vg_files: the default of line 390 or the text after -v
VgArgs ==
    {<<"1">>, <<"a">>, <<>>, <<"x">>, <<"3", ",", "1">>, <<"1", ",", "x">>,
     <<"x", ",", "2">>, <<"1", ",", "x", ",", "3">>, <<",", "1", ",", "2">>,
     <<"1", ",", "2", ",", "3">>, <<"x", ",", "y", ",", "3">>}

\* the numbers N of range(1, 13) for which a file <in_file>.vgN may exist
VgFound == {1, 3}

\* bool(v) of a Python value: a number other than 0, a text that is not empty
Truthy(v) == IF v.t = "str" THEN v.s # <<>> ELSE v.n # 0

\* int(v) of a Python value: [ok, n]; ok is FALSE where int raises ValueError
PyToInt(v) == IF v.t = "str" THEN ParseInt(v.s) ELSE [ok |-> TRUE, n |-> v.n]

\* s.find(","): the place of the first comma counted from 0, or -1
FindComma(s) ==
    IF \E k \in 1..Len(s) : s[k] = ","
    THEN SetMin({k \in 1..Len(s) : s[k] = ","}) - 1
    ELSE 0 - 1

\* the list without the entry at place i, counted from 0: vg_files.pop(i)
PopAt(l, i) == SubSeq(l, 1, i) \o SubSeq(l, i + 2, Len(l))

\* the numbers of S as an ascending list
RECURSIVE Ascending(_)
Ascending(S) ==
    IF S = {} THEN <<>> ELSE <<PyInt(SetMin(S))>> \o Ascending(S \ {SetMin(S)})

MainInit ==
    /\ \E d \in DataTypeArgs, v \in VgArgs, f \in SUBSET VgFound :
          cli = [CliOff EXCEPT !.pc = "args", !.data_type = d, !.vg = v, !.found = f]
    /\ CollectorOff
    /\ PlotOff
    /\ codec = CodecOff
    /\ MapsOff
    /\ MatrixOff
    /\ pool = PoolOff

\* lines 402-405: int(args.data_type) raises ValueError out of main for a
\* text that is no integer; a number that is no key of IMG_TYPE_DICT is
\* reported and the attribute dataType of args is set to 1
CheckDataType ==
    /\ cli.pc = "args"
    /\ cli' = IF ~Truthy(cli.data_type) THEN [cli EXCEPT !.pc = "vg"]
              ELSE IF ~PyToInt(cli.data_type).ok THEN [cli EXCEPT !.pc = "raised_main"]
              ELSE IF PyToInt(cli.data_type).n \in 1..Len(IMG_TYPE_DICT)
                   THEN [cli EXCEPT !.pc = "vg"]
              ELSE [cli EXCEPT !.pc = "vg",
                               !.printed = @ \cup {"Unrecognised plot type"},
                               !.dataType = 1]
    /\ UNCHANGED <<vars, gvars, codec, pvars, rvars, pool>>

\* lines 407-419: an empty text leaves vg_files empty; 'a' takes the
\* numbers of the files that exist; else the text is split at its commas,
\* unless find returns 0 (a comma at the start), which takes it whole
SplitVgFiles ==
    /\ cli.pc = "vg"
    /\ cli' = IF cli.vg = <<>> THEN [cli EXCEPT !.pc = "plot"]
              ELSE IF cli.vg = <<"a">>
                   THEN [cli EXCEPT !.pc = "plot", !.vg_files = Ascending(cli.found)]
              ELSE IF FindComma(cli.vg) # 0
                   THEN [cli EXCEPT !.pc = "loop", !.i = 0,
                            !.vg_files = [k \in 1..Len(SplitOn(cli.vg, ",")) |->
                                            PyStr(SplitOn(cli.vg, ",")[k])],
                            !.n = Len(SplitOn(cli.vg, ","))]
              ELSE [cli EXCEPT !.pc = "loop", !.i = 0, !.n = 1,
                               !.vg_files = <<PyStr(cli.vg)>>]
    /\ UNCHANGED <<vars, gvars, codec, pvars, rvars, pool>>

\* lines 421-425, 429-431: one pass of the loop over range(0, len(vg_files)),
\* the length taken before the loop.  An entry that int() refuses is popped.
\* Past the end of the shortened list vg_files[i] raises IndexError, the
\* pop of line 425 raises it again, and line 431 resets the list.
ConvertEntry ==
    /\ cli.pc = "loop"
    /\ cli.i < cli.n
    /\ cli' = IF cli.i >= Len(cli.vg_files)
              THEN [cli EXCEPT !.pc = "plot", !.vg_files = <<PyInt(1)>>,
                               !.printed = @ \cup {"Error reading vg files"}]
              ELSE IF PyToInt(cli.vg_files[cli.i + 1]).ok
                   THEN [cli EXCEPT !.i = @ + 1,
                            !.vg_files[cli.i + 1] = PyInt(PyToInt(cli.vg_files[cli.i + 1]).n)]
              ELSE [cli EXCEPT !.i = @ + 1, !.vg_files = PopAt(cli.vg_files, cli.i)]
    /\ UNCHANGED <<vars, gvars, codec, pvars, rvars, pool>>

\* lines 426-428: after the loop an empty list is reset to [1]
EndConvert ==
    /\ cli.pc = "loop"
    /\ cli.i = cli.n
    /\ cli' = IF cli.vg_files = <<>>
              THEN [cli EXCEPT !.pc = "plot", !.vg_files = <<PyInt(1)>>,
                               !.printed = @ \cup {"Error reading vg files (1)"}]
              ELSE [cli EXCEPT !.pc = "plot"]
    /\ UNCHANGED <<vars, gvars, codec, pvars, rvars, pool>>

\* lines 433-448 and line 97: VOAAreaPlot is made with vg_files and
\* args.data_type; IMG_TYPE_DICT[int(data_type)] raises ValueError for a
\* text that is no integer and KeyError for a number that is no key
MakePlot ==
    /\ cli.pc = "plot"
    /\ cli' = IF /\ PyToInt(cli.data_type).ok
                 /\ PyToInt(cli.data_type).n \in 1..Len(IMG_TYPE_DICT)
              THEN [cli EXCEPT !.pc = "plotted", !.image = PyToInt(cli.data_type).n]
              ELSE [cli EXCEPT !.pc = "raised_plot"]
    /\ UNCHANGED <<vars, gvars, codec, pvars, rvars, pool>>

MainNext ==
    \/ CheckDataType
    \/ SplitVgFiles
    \/ ConvertEntry
    \/ EndConvert
    \/ MakePlot

MainSpec == MainInit /\ [][MainNext]_allvars

(***************************************************************************)
(* plot_maps.py, lines 249-269: the calls of plot_maps, one per .voa file   *)
(* found under INPUT_PATH, that run side by side in the pool of line 267.   *)
(* Each call goes through its VG files and the selected map types as in     *)
(* lines 164-217; what is followed here is the output path of line 185,     *)
(* which renderer is writing to it, and which call left the file there.     *)
(***************************************************************************)
\* the .voa files found, one per directory (lines 254-262); the VG files
\* next to one .voa file differ in their headers
MaxVoas == 2

\* max_workers of line 265 on a machine with one processor
max_workers == 2

\* what _extract_hour_and_mhz_stream finds in a VG file: the number before
\* UT and the MHz in tenths, -1 where the search finds nothing
VgHeads ==
    {[hour |-> 1, mhz |-> 71], [hour |-> 1, mhz |-> 79], [hour |-> -1, mhz |-> -1]}

\* the selections of map types the pool is run with
PoolSelections == {<<"MUF">>, <<"REL", "MUF">>, <<"MUF", "MUF">>}

\* f"{n:02d}" of n in 0..99
TwoDigits(n) ==
    IF n < 10 THEN <<"0", Str(n)>> ELSE <<Str(n \div 10), Str(n % 10)>>

\* lines 81, 127-128, 132: the hour modulo 24, 0 where none was found
time_str(h) == TwoDigits(IF h.hour < 0 THEN 0 ELSE h.hour % 24)

\* lines 129-130, 133: int(mhz_val), 0.0 where none was found
freq_str(h) == TwoDigits(IF h.mhz < 0 THEN 0 ELSE h.mhz \div 10)

\* lines 175, 185: INPUT_PATH / dir / "<time_str>UT-<freq_str>MHz.png"
outfile(map, h) ==
    [dir |-> MAP_CONFIG[map].dir,
     name |-> time_str(h) \o <<"U", "T", "-">> \o freq_str(h)
                \o <<"M", "H", "z", ".", "p", "n", "g">>]

\* a call that executor.map has not started yet
Waiting == [pc |-> "queued", vg |-> 0, at |-> 0]

PoolInit ==
    /\ \E n \in 1..MaxVoas :
         \E voas \in [1..n -> UNION {Arrangements(VgHeads, m) : m \in 0..MaxVgs}] :
           \E sel \in PoolSelections :
              pool = [pc |-> "run", infiles |-> voas, maps |-> sel,
                      call |-> [k \in 1..n |-> Waiting],
                      files |-> {}, writing |-> {}, wrote |-> {}, skipped |-> {}]
    /\ CollectorOff
    /\ PlotOff
    /\ codec = CodecOff
    /\ MapsOff
    /\ MatrixOff
    /\ cli = CliOff

\* the unit the call of file k is at: the .voa file, the VG file, the map
\* type
UnitOf(k) ==
    [f |-> k, vg |-> pool.call[k].vg, map |-> pool.maps[pool.call[k].at]]

\* line 185 of the unit the call of file k is at
PathOf(k) ==
    outfile(pool.maps[pool.call[k].at], pool.infiles[k][pool.call[k].vg])

\* lines 189-191: the inputs were written before the pool started, an
\* output of this run after them
StatOf(path) ==
    [out |-> IF \E x \in pool.files : x.path = path THEN 2 ELSE 0,
     vg |-> 1, voa |-> 1]

\* continue, or the end of the body of the inner loop, in the call of
\* file k
After(k) ==
    IF pool.call[k].at < Len(pool.maps)
    THEN [pc |-> "unit", vg |-> pool.call[k].vg, at |-> pool.call[k].at + 1]
    ELSE IF pool.call[k].vg < Len(pool.infiles[k])
    THEN [pc |-> "unit", vg |-> pool.call[k].vg + 1, at |-> 1]
    ELSE [pc |-> "done", vg |-> pool.call[k].vg, at |-> pool.call[k].at]

\* lines 267-268, 154-170: a free thread of the pool takes the call of the
\* next file; without VG files the call returns
StartCall(k) ==
    /\ pool.pc = "run"
    /\ k \in 1..Len(pool.infiles)
    /\ pool.call[k].pc = "queued"
    /\ \A j \in 1..(k - 1) : pool.call[j].pc # "queued"
    /\ Cardinality({j \in 1..Len(pool.infiles) :
                      pool.call[j].pc \in {"unit", "render"}}) < max_workers
    /\ pool' = [pool EXCEPT !.call[k] =
                  IF pool.infiles[k] = <<>> THEN [Waiting EXCEPT !.pc = "done"]
                  ELSE [pc |-> "unit", vg |-> 1, at |-> 1]]
    /\ UNCHANGED <<vars, gvars, codec, pvars, rvars, cli>>

\* lines 176-182 in the call of file k: outdir.mkdir raises
PoolMkdirFails(k) ==
    /\ pool.pc = "run"
    /\ k \in 1..Len(pool.infiles)
    /\ pool.call[k].pc = "unit"
    /\ pool' = [pool EXCEPT !.call[k] = After(k)]
    /\ UNCHANGED <<vars, gvars, codec, pvars, rvars, cli>>

\* lines 185-192 in the call of file k: the file at the output path is up
\* to date and the unit is skipped
PoolSkip(k) ==
    /\ pool.pc = "run"
    /\ k \in 1..Len(pool.infiles)
    /\ pool.call[k].pc = "unit"
    /\ UpToDate(StatOf(PathOf(k)))
    /\ pool' = [pool EXCEPT
                  !.skipped = @ \cup {[unit |-> UnitOf(k), by |-> x.by] :
                                        x \in {y \in pool.files : y.path = PathOf(k)}},
                  !.call[k] = After(k)]
    /\ UNCHANGED <<vars, gvars, codec, pvars, rvars, cli>>

\* lines 185-200 in the call of file k: the output is not up to date (the
\* files stay readable, no stat() raises); the renderer is started with
\* -o outfile
BeginRender(k) ==
    /\ pool.pc = "run"
    /\ k \in 1..Len(pool.infiles)
    /\ pool.call[k].pc = "unit"
    /\ ~UpToDate(StatOf(PathOf(k)))
    /\ pool' = [pool EXCEPT
                  !.writing = @ \cup {[path |-> PathOf(k), by |-> UnitOf(k)]},
                  !.wrote = @ \cup {[path |-> PathOf(k), by |-> UnitOf(k)]},
                  !.call[k].pc = "render"]
    /\ UNCHANGED <<vars, gvars, codec, pvars, rvars, cli>>

\* lines 200-217 in the call of file k: the renderer ends as r; with exit
\* code 0 its image is the file at the output path
EndRender(k) ==
    /\ pool.pc = "run"
    /\ k \in 1..Len(pool.infiles)
    /\ pool.call[k].pc = "render"
    /\ \E r \in RunResults :
         pool' = [pool EXCEPT
                    !.files = IF r = "ok"
                              THEN {x \in @ : x.path # PathOf(k)}
                                     \cup {[path |-> PathOf(k), by |-> UnitOf(k)]}
                              ELSE @,
                    !.writing = @ \ {[path |-> PathOf(k), by |-> UnitOf(k)]},
                    !.call[k] = After(k)]
    /\ UNCHANGED <<vars, gvars, codec, pvars, rvars, cli>>

\* lines 267-274: every call has returned and the with block ends
EndPool ==
    /\ pool.pc = "run"
    /\ \A k \in 1..Len(pool.infiles) : pool.call[k].pc = "done"
    /\ pool' = [pool EXCEPT !.pc = "done"]
    /\ UNCHANGED <<vars, gvars, codec, pvars, rvars, cli>>

PoolNext ==
    \/ \E k \in 1..MaxVoas : StartCall(k)
    \/ \E k \in 1..MaxVoas : PoolMkdirFails(k)
    \/ \E k \in 1..MaxVoas : PoolSkip(k)
    \/ \E k \in 1..MaxVoas : BeginRender(k)
    \/ \E k \in 1..MaxVoas : EndRender(k)
    \/ EndPool

PoolSpec == PoolInit /\ [][PoolNext]_allvars

(***************************************************************************)
(* What the claims speak of.                                                *)
(***************************************************************************)
\* a header line that passes lines 103-106
GoodHeader(line) ==
    IsHeader(line) /\ HeaderTokens(line).ok /\ maiden2latlon(HeaderGrid(line)).ok

\* a header line with a segment after "]" that has not six tokens
BadTokenHeader(line) ==
    IsHeader(line) /\ Len(SplitOn(Strip(line), "]")) >= 2 /\ ~HeaderTokens(line).ok

\* a header line that passes line 104 and whose locator maiden2latlon rejects
BadLocatorHeader(line) ==
    IsHeader(line) /\ HeaderTokens(line).ok /\ ~maiden2latlon(HeaderGrid(line)).ok

\* a data line of the fixed layout with a numeric receiver position
WellFormedData(line) ==
    /\ ~Ignored(line)
    /\ ~EndsWith(line, ssn)
    /\ Len(line) = calcsize
    /\ ParseFloat(unpack(line)[3]).ok
    /\ ParseFloat(unpack(line)[4]).ok

\* the context fields of a record
RowCtx(r) == <<r.txlat, r.txlon, r.utc, r.month, r.freq>>

\* the context fields a record made under the good header line carries
HeaderCtx(line) ==
    <<PyFloat(maiden2latlon(HeaderGrid(line)).lat),
      PyFloat(maiden2latlon(HeaderGrid(line)).lon),
      convert(PyStr(DropLast(HeaderTokens(line).toks[3], 2))),
      convert(PyStr(HeaderTokens(line).toks[5])),
      convert(PyStr(DropLast(HeaderTokens(line).toks[4], 3)))>>

\* the records made from the lines of file k
FromFile(k) == {i \in 1..Len(rows) : rowsrc[i].line[1] = k}

\* the main thread has taken every result of the file opened last
FileParsed == mainpc = "loop" /\ fileNo >= 1

\* the header lines before line i of the file opened last
HeadersBefore(i) == {j \in 1..(i - 1) : IsHeader(lines[j])}

\* a sequence as an unordered collection
BagOfSeq(q) ==
    [x \in {q[i] : i \in 1..Len(q)} |-> Cardinality({i \in 1..Len(q) : q[i] = x})]

\* the records of a pool of one worker, which runs the lines ls one after
\* the other in the order of the file, from the context c
RECURSIVE OneWorkerRows(_, _)
OneWorkerRows(ls, c) ==
    IF ls = <<>> THEN <<>>
    ELSE LET l == Head(ls)
             c2 == IF GoodHeader(l)
                   THEN [txlat |-> maiden2latlon(HeaderGrid(l)).lat,
                         txlon |-> maiden2latlon(HeaderGrid(l)).lon,
                         utc |-> PyStr(HeaderTokens(l).toks[3]),
                         month |-> PyStr(HeaderTokens(l).toks[5]),
                         freq |-> PyStr(HeaderTokens(l).toks[4])]
                   ELSE c
             r == TryBlock(l, c2.txlat, c2.txlon, c2.utc, c2.month, c2.freq)
         IN  IF Ignored(l) THEN OneWorkerRows(Tail(ls), c)
             ELSE (IF r.ok THEN <<r.row>> ELSE <<>>) \o OneWorkerRows(Tail(ls), c2)

\* the context of line 152
InitialCtx ==
    [txlat |-> SentinelPos, txlon |-> SentinelPos,
     utc |-> Sentinel, month |-> Sentinel, freq |-> Sentinel]

\* no header line has set any field of the context: it is that of line 152
NoHeaderYet == hdrsrc = <<0, 0>> /\ possrc = <<0, 0>>

\* a future that has ended
Ended(i) == i <= Len(fs) /\ fs[i] \in {"done", "raised", "cancelled"}

\* no header line of the file raises
NoRaise(ls) == \A i \in 1..Len(ls) : IsHeader(ls[i]) => GoodHeader(ls[i])

\* the workers inside the with block of line 93
InCritical == {w \in Workers : wpc[w] \in {"body", "grid"}}

\* a line that reaches the try block as a data line and is not of the
\* length of col_format
WrongLength(line) ==
    ~Ignored(line) /\ ~EndsWith(line, ssn) /\ Len(line) # calcsize

\* a line that starts with VOACAPL or ends with PWRCTANGLER
BannerOrFooter(line) == StartsWith(line, VOACAPL) \/ EndsWith(line, PWRCTANGLER)

\* the hour a record stores for the context value u (line 138)
StoredHour(u) == convert(PyStr(DropLast(u.s, 2)))

\* the frequency a record stores for the context value f (line 138)
StoredFreq(f) == convert(PyStr(DropLast(f.s, 3)))

\* the row, the column and the raw value a line of a .vg file holds
VgRow(l) == ParseInt(Slice(l, 3, 6))

VgCol(l) == ParseInt(Slice(l, 0, 3))

VgRaw(l) == ParseFloat(Slice(l, image_defs.first_char, image_defs.last_char))

\* a line without a-z whose three fields are numbers
VgData(l) == ~HasLower(l) /\ VgRow(l).ok /\ VgCol(l).ok /\ VgRaw(l).ok

\* a data line whose row and column are those of a cell of the matrix
Addressed(l) ==
    VgData(l) /\ VgRow(l).n \in 1..GridSize /\ VgCol(l).n \in 1..GridSize

\* the raw value v brought into the domain of the plot
InDomain(v) ==
    IF v > image_defs.max THEN image_defs.max
    ELSE IF v < image_defs.min THEN image_defs.min
    ELSE v

\* a step of the loop over the lines of the .vg file
LineStep == vgpc = "loop" /\ vgread' = vgread + 1

\* a 6-character locator in the case convention: field letters A-R, two
\* digits, subsquare letters a-x
ConventionLocator(l) ==
    /\ Len(l) = 6
    /\ \A i \in 1..2 : InSeq(SubSeq(Upper, 1, 18), l[i])
    /\ \A i \in 3..4 : InSeq(Digits, l[i])
    /\ \A i \in 5..6 : InSeq(SubSeq(Lower, 1, 24), l[i])

\* a locator maiden2latlon is to refuse: fewer than 4 characters, or one of
\* the first six characters outside the range of its place (field letters
\* A-R, digits 0-9, subsquare letters a-x in either case)
OutsideAlphabet(l) ==
    \/ Len(l) < 4
    \/ \E i \in 1..2 : ~InSeq(SubSeq(Upper, 1, 18), l[i])
    \/ \E i \in 3..4 : ~InSeq(Digits, l[i])
    \/ \E i \in 5..PyMin(6, Len(l)) :
            ~InSeq(SubSeq(Lower, 1, 24) \o SubSeq(Upper, 1, 24), l[i])

\* the (VG file, map type) units of the call from the VG file at place i
\* on, in the order of the two loops: the VG files that have a selector,
\* each with every selected map type
RECURSIVE UnitsFrom(_)
UnitsFrom(i) ==
    IF i > Len(vgs) THEN <<>>
    ELSE (IF safe_vg_number(vgs[i]) = <<>> THEN <<>>
          ELSE [j \in 1..Len(SELECTED_MAPS) |->
                   [vg |-> i, at |-> j, map |-> SELECTED_MAPS[j]]])
         \o UnitsFrom(i + 1)

\* the calls of the renderer for the VG file and the place in SELECTED_MAPS
\* of u
CallsOf(u) == {k \in 1..Len(calls) : calls[k].vg = u.vg /\ calls[k].at = u.at}

\* the unit handled last
LastUnit == plotlog[Len(plotlog)]

\* the output of the unit handled last was there, with a modification time
\* not less than that of the VG file and that of the .voa file
OutputCurrent ==
    /\ unit.out > 0 /\ unit.vg > 0 /\ unit.voa > 0
    /\ unit.out >= unit.vg
    /\ unit.out >= unit.voa

\* a suffix .vg<N>, and its N
NumberedVg(suf) ==
    /\ Len(suf) >= 4
    /\ SubSeq(suf, 1, 3) = <<".", "v", "g">>
    /\ \A k \in 4..Len(suf) : InSeq(Digits, suf[k])

VgNumber(suf) == DigitsValue(SubSeq(suf, 4, Len(suf)))

\* a suffix with no digit in it
NoDigit(suf) == \A k \in 1..Len(suf) : ~InSeq(Digits, suf[k])

\* the calls of make_voacap_predictions submitted so far
Tasks == {<<p, i>> \in (1..Len(task)) \X (1..Len(flist)) : TRUE}

\* a step of a call that has begun, that of period p for the frequency at
\* place i of flist
TaskStep(p, i) ==
    OpenTmp(p, i) \/ WriteDeck(p, i) \/ ReplaceDeck(p, i) \/ RunVoacapl(p, i)

\* the month of period p is over: the main thread has left its with block
PeriodOver(p) == p < period \/ p2ppc \in {"loop", "done"}

\* |a - b|
Dist(a, b) == IF a >= b THEN a - b ELSE b - a

(***************************************************************************)
(* The claims.                                                              *)
(***************************************************************************)
\* C1: every record made from a data line carries the context set by the
\* header line that precedes the data line in its file (the last header
\* line before it, where that one is well formed), whatever the order in
\* which the workers run.
C1_RecordCarriesPrecedingHeader ==
    \A k \in FromFile(fileNo) :
        LET hs == HeadersBefore(rowsrc[k].line[2])
        IN  (hs # {} /\ GoodHeader(lines[SetMax(hs)])) =>
                RowCtx(rows[k]) = HeaderCtx(lines[SetMax(hs)])

\* C2: a file of one header line followed by N well-formed data lines gives
\* exactly N records, all with the tx, utc, freq and month of that header.
C2_HeaderPropagation ==
    (/\ FileParsed
     /\ Len(lines) >= 2
     /\ GoodHeader(lines[1])
     /\ \A i \in 2..Len(lines) : WellFormedData(lines[i]))
    => /\ Cardinality(FromFile(fileNo)) = Len(lines) - 1
       /\ \A k \in FromFile(fileNo) : RowCtx(rows[k]) = HeaderCtx(lines[1])

\* C3: the records of one file parsed by the pool of several workers are,
\* as an unordered collection, those of a pool of one worker, for every
\* schedule (for the first file of a run, none of whose header lines raises).
C3_SameAsOneWorker ==
    (FileParsed /\ fileNo = 1 /\ NoRaise(lines))
    => BagOfSeq(rows) = BagOfSeq(OneWorkerRows(lines, InitialCtx))

\* C4: at most one worker is inside the with block of collect_data, the
\* worker inside it holds global_lock and the lock is held by no one else;
\* so while a header line is half applied (a worker at "grid") no other
\* worker reads or writes the context or rows.
C4_MutualExclusion ==
    /\ Cardinality(InCritical) <= 1
    /\ \A w \in InCritical : global_lock = w
    /\ global_lock # 0 => global_lock \in InCritical

\* C4 happens: a header line is half applied by one worker while another
\* worker has taken a line and waits for the lock.
C4_Witness ==
    \E w1, w2 \in Workers : wpc[w1] = "grid" /\ wpc[w2] = "lock"

\* C5: the number of records made from a file is the number of its
\* well-formed data lines, whatever the order in which the workers take the
\* lock (for a file that starts with a well-formed header line).
C5_OneRecordPerDataLine ==
    (FileParsed /\ Len(lines) >= 1 /\ GoodHeader(lines[1]))
    => Cardinality(FromFile(fileNo))
         = Cardinality({i \in 1..Len(lines) : WellFormedData(lines[i])})

\* C6: no record is appended while the context holds the values of line
\* 152: every record was made with utc, freq and month set by a header
\* line, and once rows is not empty the context is not the initial one.
C6_NoRecordUnderSentinel ==
    /\ \A k \in 1..Len(rows) : rowsrc[k].hdr # <<0, 0>>
    /\ rows # <<>> =>
          ~(/\ txlat = SentinelPos /\ txlon = SentinelPos
            /\ utc = Sentinel /\ month = Sentinel /\ freq = Sentinel)

\* C6 happens: a well-formed data line has run under the initial context
\* and left rows empty.
C6_Witness ==
    /\ rows = <<>>
    /\ hdrsrc = <<0, 0>>
    /\ \E i \in 1..Len(fs) : fs[i] = "done" /\ WellFormedData(lines[i])

\* C7: no data line of a file is made into a record with a context that a
\* header line of an earlier file set.
C7_ContextScopedToFile ==
    \A k \in 1..Len(rows) :
        /\ rowsrc[k].hdr[1] \in {0, rowsrc[k].line[1]}
        /\ rowsrc[k].pos[1] \in {0, rowsrc[k].line[1]}

\* C8: a header line whose segment after "]" has not six tokens ends as a
\* non-fatal parse error: the call does not raise, rows and the five context
\* fields are unchanged.
C8_TokenMismatchNonFatal ==
    [][\A w \in Workers :
          (/\ wpc[w] = "body"
           /\ wpc'[w] # "body"
           /\ BadTokenHeader(lines[wtask[w]]))
          => /\ fs'[wtask[w]] = "done"
             /\ rows' = rows
             /\ ctx' = ctx]_vars

\* C9: a header line whose locator cannot be decoded leaves the whole
\* context unchanged: no step of the call that runs it changes any of the
\* five fields.
C9_BadLocatorLeavesContext ==
    [][\A w \in Workers :
          (/\ wpc[w] \in {"body", "grid"}
           /\ wpc'[w] # wpc[w]
           /\ BadLocatorHeader(lines[wtask[w]]))
          => ctx' = ctx]_vars

\* C10: no line aborts the pool: no submitted line is cancelled and the run
\* does not end before the persistence step.
C10_NeverAborts ==
    /\ mainpc # "crashed"
    /\ \A i \in 1..Len(fs) : fs[i] # "cancelled"

\* C11: a data line whose length is not the 170 bytes of col_format (blank
\* and cut-short lines included) gives no record, leaves the five context
\* fields unchanged and its call does not raise.
C11_WrongLengthSkipped ==
    [][\A w \in Workers :
          (/\ wpc[w] = "body"
           /\ wpc'[w] # "body"
           /\ WrongLength(lines[wtask[w]]))
          => /\ fs'[wtask[w]] = "done"
             /\ rows' = rows
             /\ ctx' = ctx]_vars

\* C11 happens: a 164-byte data line has run in the second file of a run
\* whose first file set the whole context.
C11_Witness ==
    /\ fileNo = 2
    /\ hdrsrc[1] = 1
    /\ possrc = hdrsrc
    /\ \E i \in 1..Len(fs) : fs[i] = "done" /\ lines[i] = DataShortText

\* C12: a line that starts with VOACAPL or ends with PWRCTANGLER changes no
\* context field and appends no record, and its call returns at once, also
\* when the line ends with ssn or has the 170 bytes of a data line.
C12_BannerFooterIgnored ==
    [][\A w \in Workers :
          (/\ wpc[w] = "body"
           /\ BannerOrFooter(lines[wtask[w]]))
          => /\ wpc'[w] = "body" \/ (wpc'[w] = "idle" /\ fs'[wtask[w]] = "done")
             /\ rows' = rows
             /\ ctx' = ctx]_vars

\* C12 happens: in a file parsed to its end under a context that the first
\* file set, a VOACAPL line that ends with ssn and a 170-byte line that
\* ends with PWRCTANGLER have run, and the context is still that of file 1.
C12_Witness ==
    /\ fileNo = 2
    /\ FileParsed
    /\ hdrsrc[1] = 1
    /\ possrc = hdrsrc
    /\ FromFile(2) = {}
    /\ \E i, j \in 1..Len(lines) :
          /\ lines[i] = BannerHeaderText
          /\ lines[j] = FooterDataText
          /\ EndsWith(lines[i], ssn)
          /\ Len(lines[j]) = calcsize

\* C13: once a header line with six tokens after "]" and a locator that
\* decodes is applied, the context holds the position of the text before
\* "[", the hour token (stored without its 2-character unit), the frequency
\* token (stored without its 3-character unit) and the month token; every
\* record made under it carries exactly these values.  For the header
\* KP03QA ... 24ut 3.500MHz Oct: hour 24, frequency 3.5, month Oct and the
\* position of KP03QA (63 1/48 N, 21 3/8 E).
C13_HeaderSetsContext ==
    /\ (hdrsrc[1] = fileNo /\ fileNo >= 1 /\ possrc = hdrsrc
            /\ GoodHeader(lines[hdrsrc[2]]))
        => <<PyFloat(txlat), PyFloat(txlon), StoredHour(utc), convert(month),
             StoredFreq(freq)>> = HeaderCtx(lines[hdrsrc[2]])
    /\ \A k \in FromFile(fileNo) :
          (/\ rowsrc[k].hdr[1] = fileNo
           /\ rowsrc[k].pos = rowsrc[k].hdr
           /\ GoodHeader(lines[rowsrc[k].hdr[2]]))
          => /\ RowCtx(rows[k]) = HeaderCtx(lines[rowsrc[k].hdr[2]])
             /\ lines[rowsrc[k].hdr[2]] = Header1Text
                  => RowCtx(rows[k])
                       = <<PyFloat(63 * FloatUnit + FloatUnit \div 48),
                           PyFloat(21 * FloatUnit + (3 * FloatUnit) \div 8),
                           PyFloat(24 * FloatUnit),
                           PyStr(<<"O", "c", "t">>),
                           PyFloat((7 * FloatUnit) \div 2)>>

\* C13 happens: a record was made under the header KP03QA ... 24ut 3.500MHz
\* Oct of the file being parsed.
C13_Witness ==
    \E k \in FromFile(fileNo) :
        /\ rowsrc[k].hdr[1] = fileNo
        /\ rowsrc[k].pos = rowsrc[k].hdr
        /\ lines[rowsrc[k].hdr[2]] = Header1Text

\* C14: the hour of every context a header line set, and of every record,
\* is a number from 0 to 23.
C14_UtcHourInRange ==
    /\ utc.t = "str"
        => /\ StoredHour(utc).t = "float"
           /\ StoredHour(utc).n >= 0
           /\ StoredHour(utc).n <= 23 * FloatUnit
    /\ \A k \in 1..Len(rows) :
          /\ rows[k].utc.t = "float"
          /\ rows[k].utc.n >= 0
          /\ rows[k].utc.n <= 23 * FloatUnit

\* C15: for each of the six kinds of plot, the cell a data line addresses
\* holds max where the raw value of the line is above max, min where it is
\* below min, and the raw value itself where it is inside the domain.
C15_ClampOnStore ==
    (vgpc \in {"loop", "clipped"} /\ vgread >= 1 /\ Addressed(vgline))
    => points[VgRow(vgline).n][VgCol(vgline).n] = InDomain(VgRaw(vgline).n)

\* C15 happens: three cells were stored by lines of the file being read and
\* hold max, min and a value strictly between the two.
C15_Witness ==
    /\ vgpc = "loop"
    /\ Addressed(vgline)
    /\ \E c1, c2, c3 \in (1..GridSize) \X (1..GridSize) :
          /\ vgwrites[c1[1]][c1[2]] >= 1
          /\ vgwrites[c2[1]][c2[2]] >= 1
          /\ vgwrites[c3[1]][c3[2]] >= 1
          /\ points[c1[1]][c1[2]] = image_defs.max
          /\ points[c2[1]][c2[2]] = image_defs.min
          /\ points[c3[1]][c3[2]] > image_defs.min
          /\ points[c3[1]][c3[2]] < image_defs.max

\* C16: every cell of the matrix that goes to contourf lies in the domain
\* [min, max] of the plot, the cells no line stored a value in included.
C16_CellsInDomain ==
    vgpc = "clipped"
    => \A r, c \in 1..GridSize :
          points[r][c] >= image_defs.min /\ points[r][c] <= image_defs.max

\* C16 happens: a matrix for SDBW went to contourf with a cell that no line
\* stored a value in; the cell started at 0 and holds max = -60.
C16_Witness ==
    /\ vgpc = "clipped"
    /\ data_type = 5
    /\ \E r, c \in 1..GridSize :
          vgwrites[r][c] = 0 /\ points[r][c] = 0 - 60 * FloatUnit

\* C17: a data line whose row or column is not in 1..N changes no cell of
\* the matrix, and the decoding goes on with the next line.
C17_OutOfRangeDropped ==
    [][(/\ LineStep
        /\ VgData(vgline')
        /\ ~Addressed(vgline'))
       => /\ points' = points
          /\ vgpc' = "loop"]_allvars

C19_LocatorRoundTrip ==
    (codec.kind = "L" /\ codec.step = 2 /\ ConventionLocator(codec.loc))
    => codec.loc2 = codec.loc

\* C20: for every position with lat in [-90, 90] and lon in [-180, 180],
\* ends included, the position decoded from its 6-character locator is
\* within 1/48 degree of latitude and 1/24 degree of longitude of it, and
\* has itself lat in [-90, 90] and lon in [-180, 180].
C20_PositionRoundTrip ==
    (codec.kind = "P" /\ codec.step = 2 /\ Len(codec.loc) = 6)
    => /\ Dist(codec.pos2.lat, codec.pos.lat) <= FloatUnit \div 48
       /\ Dist(codec.pos2.lon, codec.pos.lon) <= FloatUnit \div 24
       /\ codec.pos2.lat >= 0 - 90 * FloatUnit
       /\ codec.pos2.lat <= 90 * FloatUnit
       /\ codec.pos2.lon >= 0 - 180 * FloatUnit
       /\ codec.pos2.lon <= 180 * FloatUnit

\* C21: maiden2latlon returns no position for a locator of fewer than 4
\* characters or with a character outside the range of its place: the call
\* fails.
C21_MalformedLocatorRefused ==
    (codec.kind = "L" /\ codec.step >= 1 /\ OutsideAlphabet(codec.loc))
    => codec.raised

\* C22: in what latlon2loc returns, for every position and every precision
\* of three pairs or more, the 5th and 6th characters are lower-case
\* letters and no other character is a lower-case letter.
C22_SubsquareLowerCase ==
    (codec.kind = "P" /\ codec.step >= 1)
    => \A i \in 1..Len(codec.loc) : (codec.loc[i] \in LowerSet) <=> (i \in 5..6)

\* C23: the batch is made durable whole or not at all, and once: nothing is
\* written to the database before every file has been parsed; executemany
\* and commit are each called at most once; what is durable is nothing or
\* every record of rows, and every record only after the one commit; after
\* an executemany that failed part-way the script has ended, nothing is
\* durable and no commit was called.
C23_AllOrNothing ==
    /\ (db # NoBatch)
         => /\ fileNo = nfiles
            /\ mainpc \in {"inserted", "committed", "insert_failed", "commit_failed"}
    /\ db.execs <= 1
    /\ db.commits <= 1
    /\ db.rows \in {<<>>, rows}
    /\ (db.rows # <<>>) => mainpc = "committed"
    /\ (mainpc = "committed")
         => (db.rows = rows /\ db.txn = <<>> /\ db.execs = 1 /\ db.commits = 1)
    /\ (mainpc = "insert_failed")
         => (db.rows = <<>> /\ db.execs = 1 /\ db.commits = 0)

\* an executemany that failed after the first record of two or more
C23_Witness ==
    /\ mainpc = "insert_failed"
    /\ Len(db.txn) >= 1
    /\ Len(db.txn) < Len(rows)
    /\ db.rows = <<>>

\* C26 as claimed: a well-formed data line that runs before any header line
\* has set the context appends one record, made with txlat = txlon = -1.
C26_SentinelDataRecorded ==
    [][\A w \in Workers :
          (/\ wpc[w] = "body"
           /\ wpc'[w] # "body"
           /\ WellFormedData(lines[wtask[w]])
           /\ NoHeaderYet)
          => /\ Len(rows') = Len(rows) + 1
             /\ rows'[Len(rows')].txlat = PyFloat(SentinelPos)
             /\ rows'[Len(rows')].txlon = PyFloat(SentinelPos)]_vars

\* C26, amended: a well-formed data line that runs before any header line
\* has set the context runs under txlat = txlon = utc = month = freq = -1
\* and is skipped: no record is appended, the context stays as it is and
\* the call does not raise.
C26_SentinelDataSkipped ==
    [][\A w \in Workers :
          (/\ wpc[w] = "body"
           /\ wpc'[w] # "body"
           /\ WellFormedData(lines[wtask[w]])
           /\ NoHeaderYet)
          => /\ ctx = <<SentinelPos, SentinelPos, Sentinel, Sentinel, Sentinel>>
             /\ fs'[wtask[w]] = "done"
             /\ rows' = rows
             /\ ctx' = ctx]_vars

\* C26 happens: a file of well-formed data lines alone, two at least, has
\* been parsed to its end before any header line, and rows is empty.
C26_Witness ==
    /\ NoHeaderYet
    /\ Len(lines) >= 2
    /\ \A i \in 1..Len(lines) : WellFormedData(lines[i]) /\ fs[i] = "done"
    /\ rows = <<>>

\* C27: with threads that are scheduled, whenever the pool of a file is
\* open it is later left, with the lock free, every worker idle and every
\* line submitted to it ended (done, raised, or cancelled before a thread
\* took it): the main thread goes on to the next file, or the script ends
\* with the exception of a header line.  The lock is only ever held while
\* a pool is open, so no worker holds it forever.
C27_ParsingFinishes ==
    (mainpc \in {"map", "exit"} \/ global_lock # 0)
      ~> (/\ mainpc \in {"loop", "crashed"}
          /\ global_lock = 0
          /\ \A w \in Workers : wpc[w] = "idle"
          /\ \A i \in 1..Len(fs) : Ended(i))

\* C27 happens: the pool of a file was left after a header line raised
\* while another worker waited for the lock; a line was cancelled, the lock
\* is free and the workers are idle.
C27_Witness ==
    /\ mainpc = "crashed"
    /\ global_lock = 0
    /\ \A w \in Workers : wpc[w] = "idle"
    /\ \E i, j \in 1..Len(fs) : fs[i] = "raised" /\ fs[j] = "done" /\ i < j

\* C24: however the units before it ended, every (VG file, map type) unit
\* of the call is handled, once and in the order of the loops: a unit whose
\* directory cannot be made, or whose renderer exits non-zero, times out or
\* raises, ends alone.  The renderer is called once for a unit that ends
\* with a result of the renderer, and not at all for the others.
C24_FailedUnitSkippedAlone ==
    /\ Len(plotlog) <= Len(UnitsFrom(1))
    /\ \A k \in 1..Len(plotlog) :
          /\ plotlog[k].vg = UnitsFrom(1)[k].vg
          /\ plotlog[k].at = UnitsFrom(1)[k].at
          /\ plotlog[k].map = UnitsFrom(1)[k].map
          /\ Cardinality(CallsOf(plotlog[k]))
               = IF plotlog[k].out \in RunResults THEN 1 ELSE 0
    /\ Len(calls) <= Len(plotlog)
    /\ (plotpc = "done") => Len(plotlog) = Len(UnitsFrom(1))

\* C24 happens: the call has ended, and of its four units the first could
\* not make its directory, the second timed out, the third exited non-zero
\* and the fourth was plotted.
C24_Witness ==
    /\ plotpc = "done"
    /\ Len(plotlog) = 4
    /\ plotlog[1].out = "mkdir"
    /\ plotlog[2].out = "timeout"
    /\ plotlog[3].out = "rc"
    /\ plotlog[4].out = "ok"
    /\ Len(calls) = 3

\* C28: for a unit whose directory is there, the renderer is not called
\* when the output exists with a modification time not less than those of
\* the VG file and of the .voa file, and it is called in every other case.
C28_UpToDateSkipped ==
    (plotlog # <<>> /\ LastUnit.out # "mkdir")
    => /\ OutputCurrent
            => (LastUnit.out = "fresh" /\ CallsOf(LastUnit) = {})
       /\ ~OutputCurrent
            => /\ LastUnit.out \in RunResults
               /\ CallsOf(LastUnit) = {Len(calls)}

\* C28 happens: after a unit that was plotted, a unit was skipped whose
\* output is as old as the .voa file and newer than the VG file.
C28_Witness ==
    /\ Len(plotlog) >= 2
    /\ plotlog[Len(plotlog) - 1].out = "ok"
    /\ LastUnit.out = "fresh"
    /\ unit.out = unit.voa
    /\ unit.vg < unit.out

\* C29: vgs holds every VG file found; the files with a suffix .vg<N> are
\* in it in ascending order of N, the units are handled in the order of
\* vgs, and the renderer gets the digits of N as its -v selector; a VG file
\* with no digit in its suffix is skipped with a warning and is in no call
\* of the renderer.
C29_AscendingSelectors ==
    (plotpc \notin {"off", "start"})
    => /\ Len(vgs) = Len(globbed)
       /\ {vgs[i] : i \in 1..Len(vgs)} = {globbed[i] : i \in 1..Len(globbed)}
       /\ \A a, b \in 1..Len(vgs) :
             (a < b /\ NumberedVg(vgs[a]) /\ NumberedVg(vgs[b]))
             => VgNumber(vgs[a]) <= VgNumber(vgs[b])
       /\ \A k, l \in 1..Len(plotlog) : k < l => plotlog[k].vg <= plotlog[l].vg
       /\ \A k \in 1..Len(calls) :
             /\ ~NoDigit(vgs[calls[k].vg])
             /\ NumberedVg(vgs[calls[k].vg])
                  => calls[k].v = SubSeq(vgs[calls[k].vg], 4, Len(vgs[calls[k].vg]))
       /\ \A i \in 1..Len(vgs) :
             NoDigit(vgs[i])
             => /\ \A k \in 1..Len(plotlog) : plotlog[k].vg # i
                /\ (vgi > i) => i \in warned

\* C29 happens: glob gave x.vg10 before x.vg2, and the renderer was called
\* with selector 2 first and with selector 10 last.
C29_Witness ==
    /\ plotpc = "done"
    /\ globbed = <<<<".", "v", "g", "1", "0">>, <<".", "v", "g", "2">>>>
    /\ Len(calls) >= 2
    /\ calls[1].v = <<"2">>
    /\ calls[Len(calls)].v = <<"1", "0">>

\* C25: a call that failed (directory, deck, missing binary, exit code,
\* timeout, exception) is logged and stops nothing else: every other call
\* of the month can still take its steps, the run ends only after every
\* year and month was submitted and every call has ended, and voacapl is
\* run at most once for a (year, month, frequency), never after the deck
\* could not be written.
C25_FailedTaskIsolated ==
    /\ p2ppc \in {"loop", "pool", "done"}
    /\ (p2ppc = "pool")
         => \A i \in 1..Len(flist) :
               (task[period][i].pc \in {"write", "writing", "replace", "exe"})
                  => ENABLED TaskStep(period, i)
    /\ (p2ppc = "pool" /\ \A i \in 1..Len(flist) : task[period][i].pc \in EndedPc)
         => ENABLED Collect
    /\ (p2ppc = "loop") => ENABLED (Submit \/ EndRun)
    /\ (p2ppc = "done")
         => /\ Len(task) = Len(run_periods)
            /\ \A t \in Tasks : task[t[1]][t[2]].pc \in EndedPc
    /\ \A t \in Tasks :
          /\ Cardinality({i \in 1..Len(flist) :
                            flist[i] = flist[t[2]] /\ task[t[1]][i].runs >= 1}) <= 1
          /\ task[t[1]][t[2]].runs <= 1
          /\ (task[t[1]][t[2]].runs = 1)
               => task[t[1]][t[2]].pc
                    \in {"done", "failed_rc", "failed_timeout", "failed_error"}
          /\ (task[t[1]][t[2]].pc
                 \in {"raised", "failed_mkdir", "failed_write", "failed_exe"})
               => task[t[1]][t[2]].runs = 0
          /\ (task[t[1]][t[2]].pc \in EndedPc \ {"done", "raised"}) => t \in p2plog
          /\ (task[t[1]][t[2]].pc = "raised" /\ PeriodOver(t[1])) => t \in p2plog
          /\ (task[t[1]][t[2]].pc = "done") => t \notin p2plog

\* C30: the final path never holds a part of a deck; and where a call that
\* has its directory for itself could not write, the .tmp file is gone,
\* the final path is as the call found it and voacapl was not run.
C30_DeckAtomicTmpRemoved ==
    \A t \in Tasks :
       /\ task[t[1]][Owner(t[2])].final \in {"none", "old", "new"}
       /\ (/\ task[t[1]][t[2]].pc = "failed_write"
           /\ \A k \in 1..Len(flist) : flist[k] = flist[t[2]] => k = t[2])
            => /\ task[t[1]][t[2]].tmp = "none"
               /\ task[t[1]][t[2]].final = task[t[1]][t[2]].prior
               /\ task[t[1]][t[2]].runs = 0

\* main has come to its end, by the call of VOAAreaPlot or by an exception
MainEnded == cli.pc \in {"plotted", "raised_main", "raised_plot"}

\* the -d value is one of the plot types 1..6
Recognised(v) == PyToInt(v).ok /\ PyToInt(v).n \in 1..6

\* the entries of the -v text that are integers, in their order
IntEntries(s) ==
    LET IsInt(e) == ParseInt(e).ok
        kept == SelectSeq(SplitOn(s, ","), IsInt)
    IN  [k \in 1..Len(kept) |-> PyInt(ParseInt(kept[k]).n)]

\* C31: with a -d value that is none of the plot types 1..6, main reports
\* it and the plot is made with the MUF entry, key 1, of IMG_TYPE_DICT; the
\* run does not fail.
C31_UnknownTypeFallsBackToMuf ==
    (MainEnded /\ Truthy(cli.data_type) /\ ~Recognised(cli.data_type))
    => /\ cli.pc = "plotted"
       /\ cli.image = 1
       /\ "Unrecognised plot type" \in cli.printed

\* C32: the list handed to VOAAreaPlot is never empty and holds integers
\* only; for a -v text other than 'a' it is the integer entries of the
\* text in their order, and [1] where there is none.
C32_IntegerEntriesKept ==
    (cli.pc \in {"plot", "plotted", "raised_plot"})
    => /\ cli.vg_files # <<>>
       /\ \A k \in 1..Len(cli.vg_files) : cli.vg_files[k].t = "int"
       /\ (cli.vg # <<"a">>)
            => cli.vg_files = IF IntEntries(cli.vg) = <<>> THEN <<PyInt(1)>>
                              ELSE IntEntries(cli.vg)

\* C34: a call reads the year, month and ssn of the iteration that
\* submitted it, and once the loop has gone on to another year and month
\* every call submitted before has ended.
C34_TaskSeesOwnPeriod ==
    \A t \in Tasks :
       /\ task[t[1]][t[2]].seen \in {0, t[1]}
       /\ (task[t[1]][t[2]].pc # "queued") => task[t[1]][t[2]].seen = t[1]
       /\ (t[1] < period) => task[t[1]][t[2]].pc \in EndedPc

\* C34 happens: the loop is at its second year and month, a call of the
\* first has run voacapl with the values of the first, and a call of the
\* second is writing its deck with the values of the second.
C34_Witness ==
    /\ period = 2
    /\ Len(task) = 2
    /\ task[1][1].pc = "done"
    /\ task[1][1].seen = 1
    /\ task[2][1].pc = "writing"
    /\ task[2][1].seen = 2

\* C33: two different (VOA file, VG file, map type) units of one run of the
\* pool never target the same output file: no two units write one output
\* path, and no unit is skipped as up to date because of an output that
\* was made from another input
C33_UnitsNeverShareOutput ==
    /\ \A a, b \in pool.wrote : a.path = b.path => a.by = b.by
    /\ \A s \in pool.skipped : s.by = s.unit

=============================================================================
